---- MODULE Spec2Model ----
(***************************************************************************)
(* Cheapskate finance tracker: the live store (categories, transactions), *)
(* the sync import protocol, transaction create / soft delete, the backup *)
(* restore upload and the periodic backup cycle.                          *)
(*                                                                         *)
(* Store queries are modelled on a healthy store: a query returns an      *)
(* error only where the data decides it (GetCategoryByName on a missing   *)
(* name).  The schema has no constraint an insert of these handlers can   *)
(* break (every column is set, foreign keys are not enforced by the       *)
(* driver's default), so CreateTransaction always inserts.                *)
(***************************************************************************)
EXTENDS Integers, Sequences, FiniteSets, TLC

\* ------------------------------------------------------------------ bounds
\* Rows the transactions table may ever hold (AUTOINCREMENT ids 1..MaxRows).
MaxRows == 2
\* Records in one import request.
MaxRecords == 2
\* Backup cycles the scheduler runs.
MaxCycles == 3

\* Concurrent import handlers.
Procs == {1, 2}

\* ------------------------------------------------------------------- time
\* A time.Time is an integer instant counted in half seconds: the clock reads
\* fractions of a second, the wire format and CURRENT_TIMESTAMP do not.
\* The zero time.Time (IsZero) is 0.
ZeroTime == 0

\* Instants in one second.
TicksPerSecond == 2

\* The whole second ord of a year.
Instant(year, ord) == (year * 100 + ord) * TicksPerSecond

\* strftime('%Y', t)
YearOf(t) == t \div (100 * TicksPerSecond)

\* The instant without its fraction of a second.
TruncateSecond(t) == (t \div TicksPerSecond) * TicksPerSecond

\* The server's wall clock when the process starts: half a second past a
\* whole second.
StartTime == Instant(2026, 20) + 1

\* The date-times the RFC3339 layout writes, each with its instant.
Rfc3339Table ==
    { <<"0001-01-01T00:00:00Z", ZeroTime>>,
      <<"2025-12-31T23:59:59Z", Instant(2025, 99)>>,
      <<"2026-01-15T12:00:00Z", Instant(2026, 5)>>,
      <<"2026-02-01T10:00:00Z", Instant(2026, 10)>>,
      <<"2026-03-01T12:00:00Z", Instant(2026, 20)>>,
      <<"2026-03-01T12:00:01Z", Instant(2026, 21)>>,
      <<"2026-03-01T12:00:02Z", Instant(2026, 22)>>,
      <<"2026-03-01T12:00:03Z", Instant(2026, 23)>>,
      <<"2026-03-01T12:00:04Z", Instant(2026, 24)>> }

\* time.Parse(time.RFC3339, s): the instant, or an error for a string that
\* is not a date-time with zone.
ParseRFC3339_DateOnly(s) ==
    IF \E e \in Rfc3339Table : e[1] = s
      THEN [err |-> FALSE, t |-> (CHOOSE e \in Rfc3339Table : e[1] = s)[2]]
      ELSE IF s = "2026-02-01" THEN [err |-> FALSE, t |-> Instant(2026, 9)]
      ELSE [err |-> TRUE, t |-> ZeroTime]

ParseRFC3339(s) ==
    IF \E e \in Rfc3339Table : e[1] = s
      THEN [err |-> FALSE, t |-> (CHOOSE e \in Rfc3339Table : e[1] = s)[2]]
      ELSE [err |-> TRUE, t |-> ZeroTime]

\* t.UTC().Format(time.RFC3339): the layout has no fraction of a second.
FormatRFC3339_Rounded(t) ==
    (CHOOSE e \in Rfc3339Table : e[2] = TruncateSecond(t + 1))[1]

FormatRFC3339(t) ==
    (CHOOSE e \in Rfc3339Table : e[2] = TruncateSecond(t))[1]

\* sql.NullTime
NullTime == [Valid |-> FALSE, Time |-> ZeroTime]

ValidTime(t) == [Valid |-> TRUE, Time |-> t]

\* ---------------------------------------------------------------- strings
\* The bytes of the strings that ORDER BY compares (BINARY collation).
Bytes(s) ==
    CASE s = "expense" -> <<101, 120, 112, 101, 110, 115, 101>>
      [] s = "income" -> <<105, 110, 99, 111, 109, 101>>
      [] s = "Food" -> <<70, 111, 111, 100>>
      [] s = "food" -> <<102, 111, 111, 100>>
      [] s = "Transport" -> <<84, 114, 97, 110, 115, 112, 111, 114, 116>>
      [] s = "Housing" -> <<72, 111, 117, 115, 105, 110, 103>>
      [] s = "Earned Income" -> <<69, 97, 114, 110, 101, 100, 32, 73, 110, 99, 111, 109, 101>>
      [] s = "Salary" -> <<83, 97, 108, 97, 114, 121>>
      [] s = "Restored Cat" -> <<82, 101, 115, 116, 111, 114, 101, 100, 32, 67, 97, 116>>
      [] OTHER -> <<>>

\* memcmp order on byte strings: a < b.
RECURSIVE BytesLess(_, _)
BytesLess(a, b) ==
    IF b = <<>> THEN FALSE
    ELSE IF a = <<>> THEN TRUE
    ELSE IF Head(a) # Head(b) THEN Head(a) < Head(b)
    ELSE BytesLess(Tail(a), Tail(b))

StrLess(s, t) == BytesLess(Bytes(s), Bytes(t))

\* ------------------------------------------------------------- categories
Cat(id, name, type) == [id |-> id, name |-> name, type |-> type]

\* schema.sql seed plus ensureSeed's Salary category.
SeededCategories ==
    { Cat(1, "Food", "expense"), Cat(2, "Transport", "expense"),
      Cat(3, "Housing", "expense"), Cat(4, "Earned Income", "income"),
      Cat(5, "Salary", "income") }

\* ORDER BY type, name (rows equal on both keep rowid order).
CatBefore(c, d) ==
    \/ StrLess(c.type, d.type)
    \/ c.type = d.type /\ StrLess(c.name, d.name)
    \/ c.type = d.type /\ c.name = d.name /\ c.id < d.id

\* ListCategories: SELECT * FROM categories ORDER BY type, name
\* (the row at place k has k - 1 rows before it).
ListCategories(cats) ==
    [k \in 1..Cardinality(cats) |->
        CHOOSE c \in cats : Cardinality({d \in cats : CatBefore(d, c)}) = k - 1]

\* GetCategoryByName: SELECT * FROM categories WHERE name = ? LIMIT 1
\* (sql.ErrNoRows when no row has exactly that name).
GetCategoryByName(cats, name) ==
    LET hit == {c \in cats : c.name = name}
    IN  IF hit = {} THEN [err |-> TRUE, cat |-> Cat(0, "", "")]
        ELSE [err |-> FALSE,
              cat |-> CHOOSE c \in hit : \A d \in hit : c.id <= d.id]

\* ----------------------------------------------------------- transactions
\* A row of the transactions table.
Row(id, categoryId, amount, currency, description, date, createdAt) ==
    [id |-> id, user_id |-> 1, category_id |-> categoryId, amount |-> amount,
     currency |-> currency, description |-> description, date |-> date,
     created_at |-> ValidTime(createdAt), deleted_at |-> NullTime]

\* CreateTransaction: INSERT INTO transactions (...) VALUES (...) RETURNING *
\* with the AUTOINCREMENT id and created_at DEFAULT CURRENT_TIMESTAMP (whole
\* seconds).
CreateTransaction(txs, id, categoryId, amount, currency, description, date, t) ==
    txs \cup {Row(id, categoryId, amount, currency, description, date,
                  TruncateSecond(t))}

SoftDeleteTransaction_Hard(txs, id, userId, t) ==
    {r \in txs : ~(r.id = id /\ r.user_id = userId)}

\* SoftDeleteTransaction: UPDATE transactions SET deleted_at = CURRENT_TIMESTAMP
\* WHERE id = ? AND user_id = ? AND deleted_at IS NULL
SoftDeleteTransaction(txs, id, userId, t) ==
    { IF r.id = id /\ r.user_id = userId /\ ~r.deleted_at.Valid
        THEN [r EXCEPT !.deleted_at = ValidTime(TruncateSecond(t))]
        ELSE r : r \in txs }

\* CountAllTransactions: SELECT COUNT(*) FROM transactions WHERE deleted_at IS NULL
CountAllTransactions(txs) == Cardinality({r \in txs : ~r.deleted_at.Valid})

\* The users table: every store image holds the one seeded user.
SeededUsers == {1}

\* A transaction row joined with its category and user ("JOIN categories c
\* ON t.category_id = c.id JOIN users u ON t.user_id = u.id"): a row whose
\* category or user is missing joins with nothing.
Joined(r, c) ==
    [id |-> r.id, amount |-> r.amount, currency |-> r.currency,
     description |-> r.description, date |-> r.date, created_at |-> r.created_at,
     deleted_at |-> r.deleted_at, category_name |-> c.name,
     category_type |-> c.type]

JoinedRows(txs, cats) ==
    { Joined(pair[1], pair[2]) :
        pair \in { q \in txs \X cats :
                     q[1].category_id = q[2].id /\ q[1].user_id \in SeededUsers } }

\* t.date DESC, rows of equal date in rowid order.
DateDescBefore(r, q) == r.date > q.date \/ (r.date = q.date /\ r.id < q.id)

\* ORDER BY t.date DESC (the row at place k has k - 1 rows before it).
OrderByDateDesc(rows) ==
    [k \in 1..Cardinality(rows) |->
        CHOOSE r \in rows : Cardinality({q \in rows : DateDescBefore(q, r)}) = k - 1]

\* The text of a year number: CAST(? AS TEXT) against strftime('%Y', ...).
YearText(y) == ToString(y)

ListTransactionsByYear_AnyYear(txs, cats, year) ==
    OrderByDateDesc({j \in JoinedRows(txs, cats) : ~j.deleted_at.Valid})

\* ListTransactionsByYear: ... WHERE strftime('%Y', t.date) = CAST(? AS TEXT)
\* AND t.deleted_at IS NULL ORDER BY t.date DESC
ListTransactionsByYear(txs, cats, year) ==
    OrderByDateDesc({j \in JoinedRows(txs, cats) :
                        YearText(YearOf(j.date)) = year /\ ~j.deleted_at.Valid})

\* "LIMIT 20"
RecentLimit == 20

\* ListRecentTransactions: ... WHERE t.deleted_at IS NULL ORDER BY t.date DESC
\* LIMIT 20
ListRecentTransactions(txs, cats) ==
    LET rows == OrderByDateDesc({j \in JoinedRows(txs, cats) : ~j.deleted_at.Valid})
    IN  IF Len(rows) <= RecentLimit THEN rows ELSE SubSeq(rows, 1, RecentLimit)

\* ListAllTransactionsForExport: ... WHERE t.deleted_at IS NULL ORDER BY t.date DESC
ListAllTransactionsForExport(txs, cats) ==
    OrderByDateDesc({j \in JoinedRows(txs, cats) : ~j.deleted_at.Valid})

\* ------------------------------------------------------------ import input
\* SyncTransaction records a client cache may send.
\* A record without "id" and "created_at" decodes with their zero values.
SyncTx(amount, currency, description, date, categoryName, categoryType) ==
    [id |-> 0, amount |-> amount, currency |-> currency, description |-> description,
     date |-> date, category_name |-> categoryName, category_type |-> categoryType,
     created_at |-> ""]

RecFood == SyncTx(-5000, "USD", "groceries", "2026-02-01T10:00:00Z", "Food", "expense")

\* The name differs from "Food" in case only: no exact match.
RecLowerCase == SyncTx(-1200, "EUR", "lunch", "2025-12-31T23:59:59Z", "food", "expense")

\* A date without time and zone.
RecBadDate == SyncTx(-700, "USD", "taxi", "2026-02-01", "Transport", "expense")

\* A positive amount under an expense category.
RecPositiveFood == SyncTx(4000, "USD", "refund", "2026-02-01T10:00:00Z", "Food", "expense")

\* The zero SyncTransaction.
NoRecord == SyncTx(0, "", "", "", "", "")

Records == {RecFood, RecLowerCase, RecBadDate, RecPositiveFood}

RECURSIVE SeqsUpTo(_, _)
SeqsUpTo(S, n) ==
    IF n = 0 THEN {<<>>}
    ELSE LET shorter == SeqsUpTo(S, n - 1)
         IN  shorter \cup {Append(q, x) : q \in {s \in shorter : Len(s) = n - 1}, x \in S}

\* Decoded bodies of an import request.
Requests == SeqsUpTo(Records, MaxRecords)

\* Request bodies: JSON that decodes to a SyncImportRequest, or JSON that
\* json.Decode rejects.
Bodies ==
    {[valid |-> TRUE, transactions |-> r] : r \in Requests}
        \cup {[valid |-> FALSE, transactions |-> <<>>]}

\* ------------------------------------------------------------ create input
\* defaultCategoryConfig: entries in priority order, then the default category.
CatConfig ==
    [DefaultCategory |-> "Housing",
     Categories |-> << [Name |-> "Earned Income", Keywords |-> {"salary", "refund"}],
                       [Name |-> "Food", Keywords |-> {"pizza", "food"}],
                       [Name |-> "Transport", Keywords |-> {"taxi", "car"}],
                       [Name |-> "Housing", Keywords |-> {"rent"}] >>]

\* Form inputs of POST /api/transaction.
CreateInputs == {"50 pizza", "1200 salary", "12 stamps", "pizza", "remove 50"}

\* The inputs of the clients beside the backup scheduler, and of the clients
\* that export.
PizzaInputs == {"50 pizza", "remove 50"}

PizzaSalaryInputs == {"50 pizza", "1200 salary", "pizza"}

\* IsRemoveCommand: reRemove matches the trimmed input.
IsRemoveCommand(input) == input = "remove 50"

\* The configured keywords that strings.Contains finds in the lowered description.
KeywordsIn(desc) ==
    CASE desc = "pizza" -> {"pizza"}
      [] desc = "salary" -> {"salary"}
      [] OTHER -> {}

\* InferCategory: the first config entry with a keyword in the description,
\* else the default category.
InferCategory(desc) ==
    LET cs == CatConfig.Categories
        hits == {k \in 1..Len(cs) : cs[k].Keywords \cap KeywordsIn(desc) # {}}
    IN  IF hits = {} THEN CatConfig.DefaultCategory
        ELSE cs[CHOOSE k \in hits : \A j \in hits : k <= j].Name

\* ParseTransaction: reSimple splits "<amount> <description>"; parseAmount
\* turns the amount into cents.
ParseTransaction(input) ==
    CASE input = "50 pizza" ->
           [err |-> FALSE, Amount |-> 50 * 100, Description |-> "pizza",
            Category |-> InferCategory("pizza")]
      [] input = "1200 salary" ->
           [err |-> FALSE, Amount |-> 1200 * 100, Description |-> "salary",
            Category |-> InferCategory("salary")]
      [] input = "12 stamps" ->
           [err |-> FALSE, Amount |-> 12 * 100, Description |-> "stamps",
            Category |-> InferCategory("stamps")]
      [] OTHER -> [err |-> TRUE, Amount |-> 0, Description |-> "", Category |-> ""]

\* ----------------------------------------------------------- restore input
\* "SQLite format 3\000"
SqliteMagic == <<83, 81, 76, 105, 116, 101, 32, 102, 111, 114, 109, 97, 116, 32, 51, 0>>

\* "magic := make([]byte, 16)"
MagicLen == 16

\* The store images an uploaded database file may hold.
ImageRestored ==
    [categories |-> {Cat(1, "Restored Cat", "expense")},
     transactions |-> {Row(1, 1, -9999, "USD", "restored transaction",
                           Instant(2026, 5), Instant(2026, 5))},
     nextId |-> 2]

ImageNoCategories == [categories |-> {}, transactions |-> {}, nextId |-> 1]

ImageIncomeOnly ==
    [categories |-> {Cat(1, "Salary", "income")}, transactions |-> {}, nextId |-> 1]

\* A backup of a seeded store with one transaction of 2025 and one of 2026.
ImageTwoYears ==
    [categories |-> SeededCategories,
     transactions |-> {Row(1, 1, -1500, "USD", "old pizza", Instant(2025, 99),
                           Instant(2025, 99)),
                       Row(2, 5, 300000, "USD", "salary", Instant(2026, 10),
                           Instant(2026, 10))},
     nextId |-> 3]

\* A database file whose transaction of 2025 names a category row the file
\* does not hold (the connection does not enforce foreign keys).
ImageOrphan ==
    [categories |-> {Cat(5, "Salary", "income")},
     transactions |-> ImageTwoYears.transactions,
     nextId |-> 3]

ImageOf(content) ==
    CASE content = "restored" -> ImageRestored
      [] content = "nocategories" -> ImageNoCategories
      [] content = "twoyears" -> ImageTwoYears
      [] content = "orphan" -> ImageOrphan
      [] OTHER -> ImageIncomeOnly

ImageContents == {"restored", "nocategories", "incomeonly", "twoyears"}

\* Leading bytes of files that are no SQLite database: every proper prefix of
\* the signature, and the signature with one byte changed.
BadHeaders ==
    {SubSeq(SqliteMagic, 1, n) : n \in 0..(MagicLen - 1)}
        \cup {[SqliteMagic EXCEPT ![k] = (SqliteMagic[k] + 1) % 256] : k \in 1..MagicLen}
        \cup {[SqliteMagic EXCEPT ![k] = (SqliteMagic[k] + 1) % 256] \o <<0, 16>> :
                 k \in {1, MagicLen}}

\* Leading bytes of files that carry the signature.
GoodHeaders == {SqliteMagic \o <<16, 0>>}

NoUpload == [present |-> FALSE, bytes |-> <<>>, content |-> "garbage"]

\* The multipart form of POST /api/backup/restore: no "backup" file, a file
\* that is no database, or a database file (signature, then pages that hold
\* an image, or pages SQLite cannot read).
Uploads ==
    {NoUpload}
        \cup {[present |-> TRUE, bytes |-> h, content |-> "garbage"] :
                 h \in BadHeaders \cup GoodHeaders \cup {SqliteMagic}}
        \cup {[present |-> TRUE, bytes |-> h, content |-> c] :
                 h \in GoodHeaders, c \in ImageContents}

\* ------------------------------------------------------------ startup seed
\* The categories that schema.sql inserts after it created the tables.
SchemaCategories ==
    { Cat(1, "Food", "expense"), Cat(2, "Transport", "expense"),
      Cat(3, "Housing", "expense"), Cat(4, "Earned Income", "income") }

\* ensureSchema: the statements of schema.sql run in order and stop at the
\* first that fails; on a database that has the tables it is the first one
\* (CREATE TABLE users), so the seed INSERT runs on a new database only.
EnsureSchema(fresh, cats, usrs) ==
    IF fresh THEN [categories |-> SchemaCategories, users |-> {}]
    ELSE [categories |-> cats, users |-> usrs]

\* The next AUTOINCREMENT id of a table with these ids.
NextIdOf(ids) == IF ids = {} THEN 1 ELSE (CHOOSE m \in ids : \A k \in ids : k <= m) + 1

\* knownCategories: the type of a configured name; a name that is not known
\* gets "expense".
KnownType(name) ==
    IF name \in {"Earned Income", "Investment Income", "Other Income"} THEN "income"
    ELSE "expense"

InsertIfMissing_Always(cats, name, type) ==
    cats \cup {Cat(NextIdOf({c.id : c \in cats}), name, type)}

\* INSERT INTO categories (...) SELECT ?, ?, ?, ? WHERE NOT EXISTS
\* (SELECT 1 FROM categories WHERE name = ?)
InsertIfMissing(cats, name, type) ==
    IF \E c \in cats : c.name = name THEN cats
    ELSE cats \cup {Cat(NextIdOf({c.id : c \in cats}), name, type)}

RECURSIVE InsertEach(_, _)
\* "for _, cat := range app.CatConfig.Categories"
InsertEach(cats, names) ==
    IF names = <<>> THEN cats
    ELSE InsertEach(InsertIfMissing(cats, Head(names), KnownType(Head(names))),
                    Tail(names))

\* An Application without a category config (CatConfig == nil).
NilConfig == [present |-> FALSE, names |-> <<>>, default |-> ""]

\* The names of a CategoryConfig, in the order of its entries.
ConfigOf(cc) ==
    [present |-> TRUE, names |-> [k \in 1..Len(cc.Categories) |-> cc.Categories[k].Name],
     default |-> cc.DefaultCategory]

\* The category configs an Application may be started with: none, the built-in
\* default, and config files with names the schema does not seed, an entry
\* twice, a name in another case and no default category.
SeedConfigs ==
    { NilConfig, ConfigOf(CatConfig),
      [present |-> TRUE, names |-> <<"Food", "Pets", "Pets">>, default |-> "Stamps"],
      [present |-> TRUE, names |-> <<"food", "Other Income">>, default |-> ""],
      [present |-> TRUE, names |-> <<"Stamps", "Travel">>, default |-> "Food"],
      [present |-> TRUE, names |-> <<"Travel", "Pets">>, default |-> "Salary"] }

\* ensureCategoriesFromConfig
EnsureCategoriesFromConfig(cats, cfg) ==
    LET listed == InsertEach(cats, cfg.names)
    IN  IF cfg.default # "" THEN InsertIfMissing(listed, cfg.default, KnownType(cfg.default))
        ELSE listed

\* ensureSeed: the default user when there is none; the type of Salary and
\* Earned Income set to income; Salary inserted when missing; every Salary row
\* but the one of lowest id deleted; the configured categories.
EnsureSeed(cats, usrs, cfg) ==
    LET typed == {IF c.name \in {"Salary", "Earned Income"} /\ c.type # "income"
                    THEN [c EXCEPT !.type = "income"] ELSE c : c \in cats}
        salary == InsertIfMissing(typed, "Salary", "income")
        single == {c \in salary :
                      c.name = "Salary" => \A d \in salary : d.name = "Salary" => c.id <= d.id}
    IN  [users |-> IF usrs = {} THEN {NextIdOf(usrs)} ELSE usrs,
         categories |-> IF cfg.present THEN EnsureCategoriesFromConfig(single, cfg)
                        ELSE single]

\* ------------------------------------------------------------------ state
VARIABLES
    categories,      \* the categories table of the live store
    transactions,    \* the transactions table of the live store
    nextId,          \* the next AUTOINCREMENT id of transactions
    now,             \* the server's wall clock
    imp,             \* each import handler's position and locals
    rst,             \* the restore handler's position, upload and response
    lastBackupTime,  \* the package variable guarded by lastBackupMu
    cycle,           \* history: the last backup cycle's sub-step results
    backupFile,      \* the file <BackupPath>/cheapskate.db
    sidecar,         \* the file <BackupPath>/cheapskate.json
    sched,           \* the backup scheduler's position
    bk,              \* a backup copy in flight: position and locals
    exp,             \* the last response of the export handler
    rt,              \* the client cache: the envelope it holds
    users,           \* the ids of the users table
    catConfig,       \* the category config the running Application was started with
    cache,           \* the browser's IndexedDB store "transactions"
    runs,            \* the browser's syncFromServer runs: position and export data
    page,            \* the browser page: checkAndRestore and the restore banner
    newest,          \* history: the transactions of the last export served to the browser
    lastBackupMu,    \* the sync.RWMutex that guards lastBackupTime
    setter,          \* the scheduler's setLastBackupTime call: position and argument
    getters,         \* each status handler's getLastBackupTime call
    origin,          \* history: the handler that wrote each row, and its input record
    importDone       \* history: an import call has inserted a row

vars == <<categories, transactions, nextId, now, imp, rst, lastBackupTime, cycle,
          backupFile, sidecar, sched, bk, exp, rt, users, catConfig, cache, runs,
          page, newest, lastBackupMu, setter, getters, origin, importDone>>

backup == <<lastBackupTime, cycle, backupFile, sidecar, sched, bk>>

\* The state beside the store and the backup files that the handlers of the
\* store leave alone.
ext == <<users, catConfig, lastBackupMu, setter, getters>>

\* The state of the browser (sync.js).
client == <<cache, runs, page, newest>>

sync == <<exp, rt, client, ext, client>>

store == <<categories, transactions, nextId>>

NoResp == [code |-> 0, imported |-> 0, skipped |-> 0, errors |-> 0]

IdleImport ==
    [pc |-> "idle", req |-> <<>>, i |-> 0, imported |-> 0, errors |-> 0,
     count |-> 0, lookups |-> 0, parses |-> 0, outcome |-> <<>>,
     resp |-> NoResp, pre |-> {}, later |-> FALSE]

IdleRestore ==
    [pc |-> "idle", upload |-> NoUpload, resp |-> "", invoked |-> FALSE,
     pre |-> <<{}, {}, 0>>]

NoCycle ==
    [ran |-> FALSE, dbErr |-> FALSE, jsonErr |-> FALSE, before |-> ZeroTime,
     at |-> ZeroTime, tried |-> <<>>, prevErr |-> FALSE,
     src |-> [categories |-> {}, transactions |-> {}, nextId |-> 0]]

\* No file at the path.
NoFile ==
    [exists |-> FALSE, tables |-> FALSE, categories |-> {}, transactions |-> {},
     nextId |-> 0]

\* The database file that opening a missing path creates: no page, no table.
EmptyDatabase == [NoFile EXCEPT !.exists = TRUE]

\* A database file that holds these tables.
DatabaseFile(cats, txs, nid) ==
    [exists |-> TRUE, tables |-> TRUE, categories |-> cats, transactions |-> txs,
     nextId |-> nid]

NoEnvelope ==
    [exists |-> FALSE, transactions |-> <<>>, categories |-> <<>>, year |-> "",
     exported_at |-> ""]

NoExport ==
    [code |-> 0, year |-> "", rows |-> <<>>, transactions |-> <<>>,
     categories |-> <<>>, exported_at |-> ""]

NoCache == [held |-> FALSE, envelope |-> <<>>, rows |-> <<>>]

IdleScheduler ==
    [pc |-> "start", ticks |-> 0, running |-> 0, chan |-> "none", during |-> 0,
     missed |-> 0, caused |-> 0]

\* The syncFromServer runs that may be in flight together.
SyncRuns == {1, 2}

\* syncFromServer is not running; "pre" is the history of the cache at the
\* start of the run.
IdleRun == [pc |-> "idle", data |-> <<>>, pre |-> {}]

\* No page is open; "count" is the transaction_count of the status response
\* and "offered" the number of cached transactions the banner names.
ClosedPage == [pc |-> "closed", count |-> 0, offered |-> 0]

\* The zero value of sync.RWMutex: no writer, no reader.
Unlocked == [writer |-> FALSE, readers |-> {}]

\* setLastBackupTime is not running; "written" is the history of the values
\* its calls were given.
IdleSetter ==
    [pc |-> "idle", t |-> ZeroTime, calls |-> 0, written |-> {ZeroTime},
     done |-> ZeroTime]

\* getLastBackupTime is not running; "floor" and "calls" are the history of
\* what the last completed Set had written, and how many Sets had begun, when
\* the Get was called.
IdleGetter ==
    [pc |-> "idle", val |-> ZeroTime, floor |-> ZeroTime, calls |-> 0,
     quiet |-> FALSE, noLater |-> FALSE]

IdleBackup ==
    [pc |-> "idle", done |-> FALSE, err |-> FALSE, atStart |-> NoFile,
     atStep |-> NoFile, destBefore |-> NoFile]

Init ==
    /\ categories = SeededCategories
    /\ transactions = {}
    /\ nextId = 1
    /\ now = StartTime
    /\ imp = [p \in Procs |-> IdleImport]
    /\ rst = IdleRestore
    /\ lastBackupTime = ZeroTime
    /\ cycle = NoCycle
    /\ backupFile = NoFile
    /\ sidecar = NoEnvelope
    /\ sched = IdleScheduler
    /\ bk = IdleBackup
    /\ exp = NoExport
    /\ rt = NoCache
    /\ cache = {}
    /\ runs = [r \in SyncRuns |-> IdleRun]
    /\ page = ClosedPage
    /\ newest = <<>>
    /\ users = SeededUsers
    /\ catConfig = ConfigOf(CatConfig)
    /\ lastBackupMu = Unlocked
    /\ setter = IdleSetter
    /\ getters = [p \in Procs |-> IdleGetter]
    /\ origin = {}
    /\ importDone = FALSE

\* No handler is in flight.
Quiet == (\A p \in Procs : imp[p].pc = "idle") /\ rst.pc = "idle"

\* ------------------------------------------------------- HandleSyncImport
GuardSkips_MoreThanOne(count) == count > 1

GuardSkips_Never(count) == FALSE

\* The idempotency guard: "if count > 0".
GuardSkips(count) == count > 0

ResolveCategory_Last(cats, name) ==
    LET byName == GetCategoryByName(cats, name)
        all == ListCategories(cats)
    IN  IF ~byName.err THEN [err |-> FALSE, cat |-> byName.cat, lookups |-> 1]
        ELSE IF Len(all) = 0 THEN [err |-> TRUE, cat |-> byName.cat, lookups |-> 2]
        ELSE [err |-> FALSE, cat |-> all[Len(all)], lookups |-> 2]

\* Resolve a record's category: GetCategoryByName, and on error the first row
\* of ListCategories; an error when the catalog is empty.  lookups counts the
\* category queries made.
ResolveCategory(cats, name) ==
    LET byName == GetCategoryByName(cats, name)
        all == ListCategories(cats)
    IN  IF ~byName.err THEN [err |-> FALSE, cat |-> byName.cat, lookups |-> 1]
        ELSE IF Len(all) = 0 THEN [err |-> TRUE, cat |-> byName.cat, lookups |-> 2]
        ELSE [err |-> FALSE, cat |-> all[1], lookups |-> 2]

ImportAmount_Inferred(syncTx, cat) ==
    IF cat.type = "expense" THEN -syncTx.amount ELSE syncTx.amount

\* The amount handed to CreateTransaction: "Amount: syncTx.Amount".
ImportAmount(syncTx, cat) == syncTx.amount

SkippedCount_NoErrors(n, imported, errors) == n - imported

\* "skipped = len(req.Transactions) - imported - errors"
SkippedCount(n, imported, errors) == n - imported - errors

\* Decode the body, count the non-deleted transactions, apply the guard.
ImportBegin(p, body) ==
    /\ imp[p].pc = "idle"
    /\ LET count == CountAllTransactions(transactions)
           call == [IdleImport EXCEPT !.pre = transactions, !.later = importDone]
       IN  imp' = [imp EXCEPT ![p] =
             IF ~body.valid
               THEN [call EXCEPT !.pc = "done", !.resp = [NoResp EXCEPT !.code = 400]]
             ELSE IF GuardSkips(count)
               THEN [call EXCEPT !.pc = "done", !.req = body.transactions,
                                 !.count = count,
                                 !.outcome = [k \in 1..Len(body.transactions) |-> "skipped"],
                                 !.resp = [code |-> 200, imported |-> 0,
                                           skipped |-> Len(body.transactions),
                                           errors |-> 0]]
             ELSE [call EXCEPT !.pc = "loop", !.req = body.transactions,
                               !.count = count, !.i = 1]]
    /\ UNCHANGED <<store, now, rst, backup, sync, origin, importDone>>

\* One iteration of "for _, syncTx := range req.Transactions".
ImportRecord(p) ==
    /\ imp[p].pc = "loop"
    /\ imp[p].i <= Len(imp[p].req)
    /\ LET st == imp[p]
           syncTx == st.req[st.i]
           res == ResolveCategory(categories, syncTx.category_name)
           txDate == ParseRFC3339(syncTx.date)
           next == [st EXCEPT !.i = st.i + 1, !.lookups = st.lookups + res.lookups]
       IN  IF res.err
             THEN /\ imp' = [imp EXCEPT ![p] =
                        [next EXCEPT !.errors = st.errors + 1,
                                     !.outcome = Append(st.outcome, "error")]]
                  /\ UNCHANGED <<store, origin, importDone>>
           ELSE IF txDate.err
             THEN /\ imp' = [imp EXCEPT ![p] =
                        [next EXCEPT !.errors = st.errors + 1,
                                     !.parses = st.parses + 1,
                                     !.outcome = Append(st.outcome, "error")]]
                  /\ UNCHANGED <<store, origin, importDone>>
           ELSE /\ nextId <= MaxRows
                /\ transactions' =
                     CreateTransaction(transactions, nextId, res.cat.id,
                                       ImportAmount(syncTx, res.cat), syncTx.currency,
                                       syncTx.description, txDate.t, now)
                /\ nextId' = nextId + 1
                /\ origin' = origin \cup
                     {[id |-> nextId, via |-> "import", rec |-> syncTx, pos |-> st.i]}
                /\ imp' = [imp EXCEPT ![p] =
                        [next EXCEPT !.imported = st.imported + 1,
                                     !.parses = st.parses + 1,
                                     !.outcome = Append(st.outcome, "imported")]]
                /\ importDone' = TRUE
                /\ UNCHANGED categories
    /\ UNCHANGED <<now, rst, backup, sync>>

\* After the loop: compute skipped and write the response.
ImportFinish(p) ==
    /\ imp[p].pc = "loop"
    /\ imp[p].i > Len(imp[p].req)
    /\ LET st == imp[p]
       IN  imp' = [imp EXCEPT ![p] =
             [st EXCEPT !.pc = "done",
                        !.resp = [code |-> 200, imported |-> st.imported,
                                  skipped |-> SkippedCount(Len(st.req), st.imported, st.errors),
                                  errors |-> st.errors]]]
    /\ UNCHANGED <<store, now, rst, backup, sync, origin, importDone>>

\* The handler returns; its locals are gone.
ImportReturn(p) ==
    /\ imp[p].pc = "done"
    /\ imp' = [imp EXCEPT ![p] = IdleImport]
    /\ UNCHANGED <<store, now, rst, backup, sync, origin, importDone>>

\* ------------------------------------------------ HandleTransactionCreate
\* Resolve the parsed category: by name, then "Salary" for "Earned Income",
\* then the first category, then the hardcoded (1, "Unknown", "expense").
CreateCategory(cats, parsedCategory) ==
    LET byName == GetCategoryByName(cats, parsedCategory)
        altName == IF parsedCategory = "Earned Income" THEN "Salary" ELSE parsedCategory
        byAlt == GetCategoryByName(cats, altName)
        all == ListCategories(cats)
    IN  IF ~byName.err THEN byName.cat
        ELSE IF ~byAlt.err THEN byAlt.cat
        ELSE IF Len(all) > 0 THEN all[1]
        ELSE Cat(1, "Unknown", "expense")

CreateAmount_NoNegate(amount, catType) == amount

\* "if catType == "expense" { amount = -amount }"
CreateAmount(amount, catType) == IF catType = "expense" THEN -amount ELSE amount

\* The handler's work on the server's state.
TransactionCreate(input) ==
    LET parsed == ParseTransaction(input)
        cat == CreateCategory(categories, parsed.Category)
    IN  IF IsRemoveCommand(input) \/ parsed.err
          THEN UNCHANGED <<store, now, imp, rst, backup, exp, rt, ext, origin,
                           importDone>>
          ELSE /\ nextId <= MaxRows
               /\ transactions' =
                    CreateTransaction(transactions, nextId, cat.id,
                                      CreateAmount(parsed.Amount, cat.type), "USD",
                                      parsed.Description, now, now)
               /\ nextId' = nextId + 1
               /\ origin' = origin \cup
                    {[id |-> nextId, via |-> "create", rec |-> NoRecord, pos |-> 0]}
               /\ UNCHANGED <<categories, now, imp, rst, backup, exp, rt, ext,
                               importDone>>

\* POST /api/transaction from a client that is not the browser page.
HandleTransactionCreate(input) == TransactionCreate(input) /\ UNCHANGED client

\* ------------------------------------------------ HandleTransactionDelete
\* The handler's work on the server's state.
TransactionDelete(id) ==
    /\ transactions' = SoftDeleteTransaction(transactions, id, 1, now)
    /\ UNCHANGED <<categories, nextId, now, imp, rst, backup, exp, rt, ext, origin,
                   importDone>>

\* DELETE /api/transaction/{id} from a client that is not the browser page.
HandleTransactionDelete(id) == TransactionDelete(id) /\ UNCHANGED client

\* --------------------------------------------------------- HandleWipeData
\* DeleteAllTransactions: DELETE FROM transactions (the AUTOINCREMENT sequence
\* stays).
DeleteAllTransactions(txs) == {}

\* DELETE /api/data: the handler's work on the server's state.
WipeData ==
    /\ transactions' = DeleteAllTransactions(transactions)
    /\ origin' = {}
    /\ UNCHANGED <<categories, nextId, now, imp, rst, backup, exp, rt, ext, importDone>>

\* ---------------------------------------------------- HandleBackupRestore
\* io.ReadFull(f, magic): fills the zeroed buffer; an error when the file
\* ends before the buffer is full.
ReadFull(bytes, n) ==
    IF Len(bytes) < n
      THEN [err |-> TRUE, buf |-> bytes \o [k \in 1..(n - Len(bytes)) |-> 0]]
      ELSE [err |-> FALSE, buf |-> SubSeq(bytes, 1, n)]

MagicRejects_NoErrCheck(bytes) == ReadFull(bytes, MagicLen).buf # SqliteMagic

MagicRejects_LengthOnly(bytes) == ReadFull(bytes, MagicLen).err

\* "err != nil || string(magic) != "SQLite format 3\000"": the upload is rejected.
MagicRejects(bytes) ==
    LET read == ReadFull(bytes, MagicLen)
    IN  read.err \/ read.buf # SqliteMagic

SqliteRestore_Merge(content) ==
    IF content = "garbage"
      THEN [err |-> TRUE, categories |-> categories, transactions |-> transactions,
            nextId |-> nextId]
      ELSE [err |-> FALSE, categories |-> categories \cup ImageOf(content).categories,
            transactions |-> transactions \cup ImageOf(content).transactions,
            nextId |-> ImageOf(content).nextId]

\* sqliteRestore: the backup API copies every page of the source file into the
\* live handle; a file whose pages SQLite cannot read fails the copy, and the
\* unfinished copy is rolled back.
SqliteRestore(content) ==
    IF content = "garbage"
      THEN [err |-> TRUE, categories |-> categories, transactions |-> transactions,
            nextId |-> nextId]
      ELSE [err |-> FALSE, categories |-> ImageOf(content).categories,
            transactions |-> ImageOf(content).transactions,
            nextId |-> ImageOf(content).nextId]

HandleBackupRestore(upload) ==
    /\ rst.pc = "idle"
    /\ LET call == [IdleRestore EXCEPT !.pc = "done", !.upload = upload, !.pre = store]
           restored == SqliteRestore(upload.content)
       IN  IF ~upload.present
             THEN /\ rst' = [call EXCEPT !.resp = "No file provided"]
                  /\ UNCHANGED <<store, origin>>
           ELSE IF MagicRejects(upload.bytes)
             THEN /\ rst' = [call EXCEPT !.resp = "Invalid file: not a SQLite database"]
                  /\ UNCHANGED <<store, origin>>
           ELSE /\ rst' = [call EXCEPT !.invoked = TRUE,
                                       !.resp = IF restored.err
                                                  THEN "Failed to restore backup"
                                                  ELSE "success"]
                /\ categories' = restored.categories
                /\ transactions' = restored.transactions
                /\ nextId' = restored.nextId
                /\ origin' =
                     IF restored.err THEN origin
                     ELSE {[id |-> r.id, via |-> "restore", rec |-> NoRecord, pos |-> 0] :
                             r \in restored.transactions}
    /\ UNCHANGED <<now, imp, backup, sync, importDone>>

\* The handler returns; its locals are gone.
RestoreReturn ==
    /\ rst.pc = "done"
    /\ rst' = IdleRestore
    /\ UNCHANGED <<store, now, imp, backup, sync, origin, importDone>>

\* ------------------------------------------------------- HandleSyncExport
\* The envelope record of a row the export handler read: the category type
\* is left empty, the times are written in the RFC3339 layout.
ExportTransaction(j) ==
    [id |-> j.id, amount |-> j.amount, currency |-> j.currency,
     description |-> j.description, date |-> FormatRFC3339(j.date),
     category_name |-> j.category_name, category_type |-> "",
     created_at |-> IF j.created_at.Valid THEN FormatRFC3339(j.created_at.Time)
                    ELSE ""]

\* The envelope record of a category (icon and color are NULL in the model).
SyncCategory(c) ==
    [id |-> c.id, name |-> c.name, type |-> c.type, icon |-> "", color |-> ""]

ExportCategories_UsedOnly(cats, rows) ==
    LET used == {c \in cats : \E k \in 1..Len(rows) : rows[k].category_name = c.name}
        catRows == ListCategories(used)
    IN  [k \in 1..Len(catRows) |-> SyncCategory(catRows[k])]

\* The categories of an envelope: every row of ListCategories, whatever rows
\* of transactions the handler read.
ExportCategories(cats, rows) ==
    LET catRows == ListCategories(cats)
    IN  [k \in 1..Len(catRows) |-> SyncCategory(catRows[k])]

\* The "year" query parameters a client may send.
YearParams == {"", "2026", "2025", "all"}

\* GET /api/sync/export?year=...: the year defaults to the clock's year.
SyncExportResponse(yearParam) ==
    LET year == IF yearParam = "" THEN YearText(YearOf(now)) ELSE yearParam
        txRows == ListTransactionsByYear(transactions, categories, year)
    IN  [code |-> 200, year |-> year, rows |-> txRows,
         transactions |-> [k \in 1..Len(txRows) |-> ExportTransaction(txRows[k])],
         categories |-> ExportCategories(categories, txRows),
         exported_at |-> FormatRFC3339(now)]

HandleSyncExport(yearParam) ==
    /\ exp' = SyncExportResponse(yearParam)
    /\ UNCHANGED <<store, now, imp, rst, backup, rt, ext, client, origin, importDone>>

\* ---------------------------------------------- the client cache (sync.js)
\* The database file is deleted and the server started again: ensureSchema
\* and ensureSeed make a fresh store.  The client still holds the envelope of
\* its last export.
RecreateStore ==
    /\ exp.code = 200
    /\ Len(exp.transactions) > 0
    /\ ~rt.held
    /\ categories' = SeededCategories
    /\ transactions' = {}
    /\ nextId' = 1
    /\ origin' = {}
    /\ rt' = [held |-> TRUE, envelope |-> exp.transactions, rows |-> exp.rows]
    /\ UNCHANGED <<now, imp, rst, backup, exp, ext, client, importDone>>

\* restoreToServer: the client posts the transactions of its cache.
RestoreToServer(p) ==
    /\ rt.held
    /\ ImportBegin(p, [valid |-> TRUE, transactions |-> rt.envelope])

\* ------------------------------------------------------------ sqliteBackup
\* What backup.Step(-1) and backup.Finish() may return: Step (true, nil) when
\* every page is copied; Step (false, nil) when the store was busy or locked,
\* after which Finish returns nil ("busy") or the busy code ("busy-reported");
\* Step (false, err) otherwise.
StepOutcomes == {"done", "busy", "busy-reported", "error"}

SqliteBackup_NoCopy(src, dest, outcome) ==
    [err |-> outcome \in {"error", "busy-reported"}, done |-> outcome = "done",
     file |-> IF dest.exists THEN dest ELSE EmptyDatabase]

\* sqliteBackup: open (or create) the destination, one Step(-1), Finish.  The
\* "done" result of Step is dropped; the error of Step, else of Finish, is
\* returned.  A step that copied every page leaves the source's image in the
\* destination; any other step leaves the destination as it was opened.
SqliteBackup(src, dest, outcome) ==
    [err |-> outcome \in {"error", "busy-reported"}, done |-> outcome = "done",
     file |-> IF outcome = "done" THEN src
              ELSE IF dest.exists THEN dest ELSE EmptyDatabase]

\* performBackup: MkdirAll, then sqliteBackup into <BackupPath>/cheapskate.db.
PerformBackup(dirErr, outcome) ==
    IF dirErr THEN [err |-> TRUE, done |-> FALSE, file |-> backupFile]
    ELSE SqliteBackup(DatabaseFile(categories, transactions, nextId), backupFile,
                      outcome)

\* -------------------------------------------------------- performJSONExport
\* The envelope record of a row the sidecar export read.
SidecarTransaction(j) ==
    [id |-> j.id, amount |-> j.amount, currency |-> j.currency,
     description |-> j.description, date |-> FormatRFC3339(j.date),
     category_name |-> j.category_name, category_type |-> j.category_type,
     created_at |-> ""]

\* performJSONExport: every non-deleted transaction and every category, with
\* Year "all", written to <BackupPath>/cheapskate.json.
PerformJSONExport ==
    LET txRows == ListAllTransactionsForExport(transactions, categories)
    IN  [exists |-> TRUE,
         transactions |-> [k \in 1..Len(txRows) |-> SidecarTransaction(txRows[k])],
         categories |-> ExportCategories(categories, txRows),
         year |-> "all",
         exported_at |-> FormatRFC3339(now)]

\* -------------------------------------------------------------- runBackup
AttemptsJSON_OnlyAfterSnapshot(dbErr) == ~dbErr

\* runBackup goes on to performJSONExport whatever performBackup returned.
AttemptsJSON(dbErr) == TRUE

\* One backup cycle.  dbErr and jsonErr tell whether performBackup (its
\* MkdirAll) and performJSONExport (its os.Create) fail; the cycle ends at
\* the next instant.
RunBackup(dbErr, jsonErr) ==
    /\ now < StartTime + MaxCycles
    /\ now' = now + 1
    /\ backupFile' = PerformBackup(dbErr, "done").file
    /\ sidecar' = IF AttemptsJSON(dbErr) /\ ~jsonErr THEN PerformJSONExport
                  ELSE sidecar
    /\ lastBackupTime' = now'
    /\ cycle' = [ran |-> TRUE, dbErr |-> PerformBackup(dbErr, "done").err,
                 jsonErr |-> jsonErr,
                 before |-> lastBackupTime, at |-> now',
                 tried |-> IF AttemptsJSON(dbErr) THEN <<"db", "json">> ELSE <<"db">>,
                 prevErr |-> cycle.ran /\ (cycle.dbErr \/ cycle.jsonErr),
                 src |-> [categories |-> categories, transactions |-> transactions,
                          nextId |-> nextId]]
    /\ UNCHANGED <<store, imp, rst, bk, sync, origin, importDone>>

\* --------------------------------------------------------- startBackupLoop
LoopContinues_UntilFailure(dbErr, jsonErr) == ~dbErr /\ ~jsonErr

\* "for range ticker.C" has no break and no return: the loop goes on
\* whatever the cycle's sub-steps returned.
LoopContinues(dbErr, jsonErr) == TRUE

\* "Run once immediately on startup", before the ticker exists.
StartBackupLoop(dbErr, jsonErr) ==
    /\ sched.pc = "start"
    /\ RunBackup(dbErr, jsonErr)
    /\ sched' = [sched EXCEPT
                    !.pc = IF LoopContinues(dbErr, jsonErr) THEN "loop" ELSE "stopped",
                    !.ticks = 0]

\* The ticker delivers a tick and the loop body runs a cycle.
BackupTick(dbErr, jsonErr) ==
    /\ sched.pc = "loop"
    /\ RunBackup(dbErr, jsonErr)
    /\ sched' = [sched EXCEPT
                    !.pc = IF LoopContinues(dbErr, jsonErr) THEN "loop" ELSE "stopped",
                    !.ticks = sched.ticks + 1]

\* --------------------------------- startBackupLoop, a cycle in two steps
\* The most ticks counted during one cycle.
MaxTicks == 2

LoopReceives_WhileRunning(running) == TRUE

\* "for range ticker.C { app.runBackup() }": the loop body is a plain call, so
\* the loop receives the next tick only after runBackup has returned.
LoopReceives(running) == running = 0

\* "Run once immediately on startup": runBackup is called before the ticker
\* exists.
FirstCycleBegin ==
    /\ sched.pc = "start"
    /\ sched.running = 0
    /\ sched' = [sched EXCEPT !.running = 1]
    /\ UNCHANGED <<store, now, imp, rst, lastBackupTime, cycle, backupFile, sidecar, bk,
                   sync, origin, importDone>>

\* time.Ticker sends on a channel with room for one tick and drops the tick
\* if the channel is full.  "during" counts the ticks of the cycle under way.
TickerFire ==
    /\ sched.pc = "loop"
    /\ IF sched.running > 0
         THEN /\ sched.during < MaxTicks
              /\ sched' = [sched EXCEPT
                              !.during = sched.during + 1,
                              !.chan = IF sched.chan = "none" THEN "cycle" ELSE sched.chan]
         ELSE /\ sched.chan = "none"
              /\ sched' = [sched EXCEPT !.chan = "wait"]
    /\ UNCHANGED <<store, now, imp, rst, lastBackupTime, cycle, backupFile, sidecar, bk,
                   sync, origin, importDone>>

\* The loop receives the tick and calls runBackup.  "caused" counts the
\* cycles begun by ticks of the cycle that ended last.
LoopReceive ==
    /\ sched.pc = "loop"
    /\ sched.chan # "none"
    /\ LoopReceives(sched.running)
    /\ sched' = [sched EXCEPT
                    !.running = sched.running + 1,
                    !.chan = "none",
                    !.ticks = sched.ticks + 1,
                    !.caused = IF sched.chan = "cycle" THEN sched.caused + 1
                               ELSE sched.caused]
    /\ UNCHANGED <<store, now, imp, rst, lastBackupTime, cycle, backupFile, sidecar, bk,
                   sync, origin, importDone>>

\* runBackup returns: the cycle's writes, then the ticker is made (after the
\* first cycle) or the loop waits for the next tick.
CycleReturn(dbErr, jsonErr) ==
    /\ sched.running > 0
    /\ RunBackup(dbErr, jsonErr)
    /\ sched' = [sched EXCEPT
                    !.pc = IF LoopContinues(dbErr, jsonErr) THEN "loop" ELSE "stopped",
                    !.running = sched.running - 1,
                    !.missed = sched.during,
                    !.during = 0,
                    !.caused = 0]

\* ------------------------------ getLastBackupTime / setLastBackupTime
\* What a reader that is not excluded may load while "lastBackupTime = t" has
\* stored some of the words of the time.Time and not yet the others.
TornTime == 0 - 1

LockAdmits_BesideReaders(mu) == ~mu.writer

\* lastBackupMu.Lock() returns when no writer and no reader holds the mutex.
LockAdmits(mu) == ~mu.writer /\ mu.readers = {}

RLockAdmits_BesideWriter(mu) == TRUE

\* lastBackupMu.RLock() returns when no writer holds the mutex.
RLockAdmits(mu) == ~mu.writer

\* runBackup calls setLastBackupTime(time.Now()).
SetCall ==
    /\ setter.pc = "idle"
    /\ now < StartTime + MaxCycles
    /\ now' = now + 1
    /\ setter' = [setter EXCEPT !.pc = "wait", !.t = now', !.calls = @ + 1,
                                !.written = @ \cup {now'}]
    /\ UNCHANGED <<store, users, catConfig, imp, rst, backup, exp, rt, client, lastBackupMu,
                   getters, origin,
                   importDone>>

\* "lastBackupMu.Lock()"
SetLock ==
    /\ setter.pc = "wait"
    /\ LockAdmits(lastBackupMu)
    /\ lastBackupMu' = [lastBackupMu EXCEPT !.writer = TRUE]
    /\ setter' = [setter EXCEPT !.pc = "locked"]
    /\ UNCHANGED <<store, users, catConfig, now, imp, rst, backup, exp, rt, client, getters,
                   origin, importDone>>

\* "lastBackupTime = t": the first words of the struct are stored.
SetStore ==
    /\ setter.pc = "locked"
    /\ lastBackupTime' = TornTime
    /\ setter' = [setter EXCEPT !.pc = "half"]
    /\ UNCHANGED <<store, users, catConfig, now, imp, rst, cycle, backupFile, sidecar,
                   sched, bk, exp, rt, client,
                   lastBackupMu, getters, origin, importDone>>

\* "lastBackupTime = t": the last word is stored.
SetStoreDone ==
    /\ setter.pc = "half"
    /\ lastBackupTime' = setter.t
    /\ setter' = [setter EXCEPT !.pc = "stored"]
    /\ UNCHANGED <<store, users, catConfig, now, imp, rst, cycle, backupFile, sidecar,
                   sched, bk, exp, rt, client,
                   lastBackupMu, getters, origin, importDone>>

\* "defer lastBackupMu.Unlock()": the call returns.
SetUnlock ==
    /\ setter.pc = "stored"
    /\ lastBackupMu' = [lastBackupMu EXCEPT !.writer = FALSE]
    /\ setter' = [setter EXCEPT !.pc = "idle", !.done = setter.t]
    /\ UNCHANGED <<store, users, catConfig, now, imp, rst, backup, exp, rt, client, getters,
                   origin, importDone>>

\* HandleBackupStatus calls getLastBackupTime().
GetCall(p) ==
    /\ getters[p].pc = "idle"
    /\ getters' = [getters EXCEPT ![p] =
                      [IdleGetter EXCEPT !.pc = "wait", !.floor = setter.done,
                                         !.calls = setter.calls,
                                         !.quiet = (setter.pc = "idle")]]
    /\ UNCHANGED <<store, users, catConfig, now, imp, rst, backup, exp, rt, client,
                   lastBackupMu, setter, origin,
                   importDone>>

\* "lastBackupMu.RLock()"
GetRLock(p) ==
    /\ getters[p].pc = "wait"
    /\ RLockAdmits(lastBackupMu)
    /\ lastBackupMu' = [lastBackupMu EXCEPT !.readers = @ \cup {p}]
    /\ getters' = [getters EXCEPT ![p].pc = "rlocked"]
    /\ UNCHANGED <<store, users, catConfig, now, imp, rst, backup, exp, rt, client, setter,
                   origin, importDone>>

\* "return lastBackupTime": the result is loaded.
GetLoad(p) ==
    /\ getters[p].pc = "rlocked"
    /\ getters' = [getters EXCEPT ![p].pc = "loaded", ![p].val = lastBackupTime]
    /\ UNCHANGED <<store, users, catConfig, now, imp, rst, backup, exp, rt, client,
                   lastBackupMu, setter, origin,
                   importDone>>

\* "defer lastBackupMu.RUnlock()": the call returns its result.
GetRUnlock(p) ==
    /\ getters[p].pc = "loaded"
    /\ lastBackupMu' = [lastBackupMu EXCEPT !.readers = @ \ {p}]
    /\ getters' = [getters EXCEPT ![p].pc = "returned",
                                  ![p].noLater = getters[p].quiet
                                                   /\ setter.calls = getters[p].calls]
    /\ UNCHANGED <<store, users, catConfig, now, imp, rst, backup, exp, rt, client, setter,
                   origin, importDone>>

\* HandleBackupStatus has answered.
GetReturn(p) ==
    /\ getters[p].pc = "returned"
    /\ getters' = [getters EXCEPT ![p] = IdleGetter]
    /\ UNCHANGED <<store, users, catConfig, now, imp, rst, backup, exp, rt, client,
                   lastBackupMu, setter, origin,
                   importDone>>

\* ------------------------------------- sqliteBackup beside running handlers
\* Another connection is inside a handler that writes: its statement may hold
\* the store's lock when the copy step runs.
Contended == \E p \in Procs : imp[p].pc = "loop"

\* sqliteBackup up to dest.Backup: the connections are open, the destination
\* file exists.
SqliteBackupOpen ==
    /\ bk.pc = "idle"
    /\ bk' = [IdleBackup EXCEPT !.pc = "opened",
                                !.atStart = DatabaseFile(categories, transactions, nextId),
                                !.destBefore = backupFile]
    /\ backupFile' = IF backupFile.exists THEN backupFile ELSE EmptyDatabase
    /\ UNCHANGED <<store, now, imp, rst, lastBackupTime, cycle, sidecar, sched, sync,
                   origin, importDone>>

\* backup.Step(-1) and backup.Finish(): sqliteBackup returns.
SqliteBackupStep(outcome) ==
    /\ bk.pc = "opened"
    /\ outcome \in {"busy", "busy-reported"} => Contended
    /\ LET src == DatabaseFile(categories, transactions, nextId)
           res == SqliteBackup(src, backupFile, outcome)
       IN  /\ backupFile' = res.file
           /\ bk' = [bk EXCEPT !.pc = "done", !.done = res.done, !.err = res.err,
                               !.atStep = src]
    /\ UNCHANGED <<store, now, imp, rst, lastBackupTime, cycle, sidecar, sched, sync,
                   origin, importDone>>

\* The caller has the result; the locals are gone.
SqliteBackupReturn ==
    /\ bk.pc = "done"
    /\ bk' = IdleBackup
    /\ UNCHANGED <<store, now, imp, rst, lastBackupTime, cycle, backupFile, sidecar,
                   sched, sync, origin, importDone>>

\* ---------------------------------------------------------- specifications
\* Handlers one at a time: a request is served to its end before the next.
NextSync ==
    \/ \E body \in Bodies : Quiet /\ ImportBegin(1, body)
    \/ ImportRecord(1)
    \/ ImportFinish(1)
    \/ ImportReturn(1)
    \/ \E input \in CreateInputs : Quiet /\ HandleTransactionCreate(input)
    \/ \E id \in 1..MaxRows : Quiet /\ HandleTransactionDelete(id)

SpecSync == Init /\ [][NextSync]_vars

\* Handlers one at a time, with restores of uploaded database files.
NextRestore ==
    \/ \E upload \in Uploads : Quiet /\ HandleBackupRestore(upload)
    \/ RestoreReturn
    \/ \E body \in Bodies : Quiet /\ ImportBegin(1, body)
    \/ ImportRecord(1)
    \/ ImportFinish(1)
    \/ ImportReturn(1)
    \/ \E input \in CreateInputs : Quiet /\ HandleTransactionCreate(input)

SpecRestore == Init /\ [][NextRestore]_vars

\* A client resends the envelope of its cache: a request that arrives while
\* another import is in flight carries the same transactions.
SameEnvelope(p, body) ==
    \A q \in Procs \ {p} :
        imp[q].pc # "idle" => body.valid /\ body.transactions = imp[q].req

\* Import handlers of concurrent requests, interleaved at their store queries.
NextRace ==
    \E p \in Procs :
        \/ \E body \in Bodies : SameEnvelope(p, body) /\ ImportBegin(p, body)
        \/ ImportRecord(p)
        \/ ImportFinish(p)
        \/ ImportReturn(p)

SpecRace == Init /\ [][NextRace]_vars

\* The backup scheduler's cycles while transactions are created and deleted.
NextBackup ==
    \/ \E dbErr \in BOOLEAN, jsonErr \in BOOLEAN : StartBackupLoop(dbErr, jsonErr)
    \/ \E dbErr \in BOOLEAN, jsonErr \in BOOLEAN : BackupTick(dbErr, jsonErr)
    \/ \E input \in PizzaInputs : HandleTransactionCreate(input)
    \/ \E id \in 1..MaxRows : HandleTransactionDelete(id)

SpecBackup == Init /\ [][NextBackup]_vars

\* The same, with the scheduler's goroutine running whenever it can: the
\* first cycle is not put off forever, and the ticker keeps delivering ticks.
SpecScheduler ==
    /\ SpecBackup
    /\ WF_vars(\E dbErr \in BOOLEAN, jsonErr \in BOOLEAN : StartBackupLoop(dbErr, jsonErr))
    /\ WF_vars(\E dbErr \in BOOLEAN, jsonErr \in BOOLEAN : BackupTick(dbErr, jsonErr))

\* ------------------------------------------------------------------ main
\* The process starts with a category config, on a new database file (fresh)
\* or on the file of an earlier run: ensureSchema, then ensureSeed.
Startup(fresh, cfg) ==
    /\ LET schema == EnsureSchema(fresh, categories, users)
           seeded == EnsureSeed(schema.categories, schema.users, cfg)
       IN  /\ categories' = seeded.categories
           /\ users' = seeded.users
    /\ transactions' = IF fresh THEN {} ELSE transactions
    /\ nextId' = IF fresh THEN 1 ELSE nextId
    /\ origin' = IF fresh THEN {} ELSE origin
    /\ catConfig' = cfg
    /\ UNCHANGED <<now, imp, rst, backup, exp, rt, client, lastBackupMu, setter, getters,
                   importDone>>

\* Starts of the process, one after another, with any of the configs.
NextSeed ==
    \E fresh \in BOOLEAN, cfg \in SeedConfigs : Startup(fresh, cfg)

SpecSeed == Init /\ [][NextSeed]_vars

\* Status queries beside the scheduler's write of the last-backup time.
NextLock ==
    \/ SetCall
    \/ SetLock
    \/ SetStore
    \/ SetStoreDone
    \/ SetUnlock
    \/ \E p \in Procs : GetCall(p)
    \/ \E p \in Procs : GetRLock(p)
    \/ \E p \in Procs : GetLoad(p)
    \/ \E p \in Procs : GetRUnlock(p)
    \/ \E p \in Procs : GetReturn(p)

SpecLock == Init /\ [][NextLock]_vars

\* Uploads of database files that hold a store image.
ImageUploads ==
    {[present |-> TRUE, bytes |-> h, content |-> c] :
        h \in GoodHeaders, c \in ImageContents}

\* Exports by year over stores that restores, creates and soft deletes have
\* written.
NextExport ==
    \/ \E upload \in ImageUploads : Quiet /\ HandleBackupRestore(upload)
    \/ RestoreReturn
    \/ \E input \in PizzaSalaryInputs : Quiet /\ HandleTransactionCreate(input)
    \/ \E id \in 1..MaxRows : Quiet /\ HandleTransactionDelete(id)
    \/ \E yearParam \in YearParams : HandleSyncExport(yearParam)

SpecExport == Init /\ [][NextExport]_vars

\* Uploads of database files with transactions of two years, with and without
\* the category rows they name.
TwoYearUploads ==
    {[present |-> TRUE, bytes |-> h, content |-> c] :
        h \in GoodHeaders, c \in {"twoyears", "orphan"}}

\* The scheduler's sidecar beside exports by request, over a restored store
\* with transactions of two years.
NextSidecar ==
    \/ \E upload \in TwoYearUploads : Quiet /\ HandleBackupRestore(upload)
    \/ RestoreReturn
    \/ \E id \in 1..MaxRows : Quiet /\ HandleTransactionDelete(id)
    \/ \E yearParam \in {"all", "2025"} : HandleSyncExport(yearParam)
    \/ StartBackupLoop(FALSE, FALSE)
    \/ BackupTick(FALSE, FALSE)

SpecSidecar == Init /\ [][NextSidecar]_vars

\* The round trip of the client cache: export, the store is made anew, the
\* client posts its cache.
NextRoundTrip ==
    \/ \E upload \in {u \in ImageUploads : u.content = "restored"} :
          Quiet /\ HandleBackupRestore(upload)
    \/ RestoreReturn
    \/ \E input \in PizzaInputs : Quiet /\ HandleTransactionCreate(input)
    \/ \E id \in 1..MaxRows : Quiet /\ HandleTransactionDelete(id)
    \/ \E yearParam \in {"", "2025"} : HandleSyncExport(yearParam)
    \/ Quiet /\ RecreateStore
    \/ Quiet /\ RestoreToServer(1)
    \/ ImportRecord(1)
    \/ ImportFinish(1)
    \/ ImportReturn(1)

SpecRoundTrip == Init /\ [][NextRoundTrip]_vars

\* Import requests whose records are all the same one.
RaceBodies ==
    {b \in Bodies : b.valid /\ \A k \in DOMAIN b.transactions :
                                  b.transactions[k] = RecFood}

\* A backup copy beside handlers that write: the steps of sqliteBackup
\* interleave with the statements of the handlers.
NextBackupRace ==
    \/ SqliteBackupOpen
    \/ \E outcome \in StepOutcomes : SqliteBackupStep(outcome)
    \/ SqliteBackupReturn
    \/ \E body \in RaceBodies : ImportBegin(1, body)
    \/ ImportRecord(1)
    \/ ImportFinish(1)
    \/ ImportReturn(1)
    \/ \E input \in PizzaInputs : HandleTransactionCreate(input)
    \/ \E id \in 1..MaxRows : HandleTransactionDelete(id)

SpecBackupRace == Init /\ [][NextBackupRace]_vars

\* ------------------------------------------------------------------ claims
\* The row of the live store with this id.
RowOf(id) == CHOOSE r \in transactions : r.id = id

\* The amount's sign agrees with the category type.
SignAgrees(amount, type) ==
    /\ type = "expense" => amount <= 0
    /\ type = "income" => amount >= 0

\* The uploaded file is shorter than the signature, or one of its first bytes
\* is not the signature's.
SignatureDiffers(bytes) ==
    \/ Len(bytes) < MagicLen
    \/ \E k \in 1..MagicLen : bytes[k] # SqliteMagic[k]

\* The date-time strings with zone of the wire format.
IsWireDate(s) == s \in {"2026-02-01T10:00:00Z", "2025-12-31T23:59:59Z"}

\* The request of an import handler was decoded.
Decoded(p) == imp[p].pc \in {"loop", "done"} /\ imp[p].resp.code # 400

\* How many records of the handler's request got this outcome.
CountOutcome(p, what) ==
    Cardinality({k \in 1..Len(imp[p].outcome) : imp[p].outcome[k] = what})

\* C1: after every backup cycle the last-backup timestamp is that cycle's
\* completion time if and only if performBackup and performJSONExport both
\* returned without error; otherwise it keeps the value it had before the cycle.
C1_TimestampOnlyOnFullSuccess ==
    cycle.ran =>
        IF ~cycle.dbErr /\ ~cycle.jsonErr
          THEN lastBackupTime = cycle.at
          ELSE lastBackupTime = cycle.before

\* C2: an upload shorter than 16 bytes, or whose first 16 bytes differ from the
\* SQLite signature, gets the "not a SQLite database" error, sqliteRestore is
\* not invoked and the live store is as before the call; sqliteRestore is only
\* reached with a file whose first 16 bytes are the signature.
C2_BadSignatureNeverRestores ==
    rst.pc = "done" =>
        /\ (rst.upload.present /\ SignatureDiffers(rst.upload.bytes)) =>
              /\ rst.resp = "Invalid file: not a SQLite database"
              /\ ~rst.invoked
              /\ store = rst.pre
        /\ rst.invoked =>
              rst.upload.present /\ ~SignatureDiffers(rst.upload.bytes)

\* C2 witness: a full-length file with one wrong byte was rejected while the
\* live store held transactions.
C2_Witness ==
    /\ rst.pc = "done"
    /\ rst.upload.present
    /\ Len(rst.upload.bytes) >= MagicLen
    /\ SignatureDiffers(rst.upload.bytes)
    /\ ~rst.invoked
    /\ transactions # {}

\* C3: an import call that starts while the store holds a non-deleted
\* transaction writes nothing, makes no category lookup and parses no date, and
\* answers imported = 0, errors = 0, skipped = number of input records.
C3_GuardedImportIsNoOp ==
    \A p \in Procs :
        (Decoded(p) /\ CountAllTransactions(imp[p].pre) > 0) =>
            /\ imp[p].pc = "done"
            /\ transactions = imp[p].pre
            /\ imp[p].lookups = 0
            /\ imp[p].parses = 0
            /\ imp[p].resp = [code |-> 200, imported |-> 0,
                              skipped |-> Len(imp[p].req), errors |-> 0]

\* C3 witness: a two-record import was answered all-skipped on a store with a
\* non-deleted transaction.
C3_Witness ==
    /\ imp[1].pc = "done"
    /\ CountAllTransactions(imp[1].pre) > 0
    /\ Len(imp[1].req) = 2
    /\ imp[1].resp.skipped = 2

\* C4: no record of an envelope is stored twice, whatever the interleaving of
\* the import calls that carry the envelope.
C4_NoDoubleImport ==
    \A o1 \in origin, o2 \in origin :
        (o1.via = "import" /\ o2.via = "import" /\ o1.pos = o2.pos /\ o1.rec = o2.rec)
            => o1.id = o2.id

\* C5 (as claimed): an import call made after an import that stored records
\* leaves the transaction rows unchanged.
C5_LaterImportsAreNoOps ==
    \A p \in Procs :
        (imp[p].pc # "idle" /\ imp[p].later) => transactions = imp[p].pre

\* C5 (amended): an import call changes the transaction rows only if the store
\* held no non-deleted transaction when the call started, and it only adds
\* rows; a call that starts on a store with a non-deleted transaction is a
\* no-op, also after an earlier import.
C5_ImportMutatesOnlyEmptyStore ==
    \A p \in Procs :
        imp[p].pc # "idle" =>
            /\ imp[p].pre \subseteq transactions
            /\ transactions # imp[p].pre => CountAllTransactions(imp[p].pre) = 0
            /\ (imp[p].later /\ CountAllTransactions(imp[p].pre) > 0) =>
                  transactions = imp[p].pre

\* C5 witness: after an import stored a record and the record was soft-deleted,
\* a repeated import inserted into the store again.
C5_Witness ==
    /\ imp[1].pc = "done"
    /\ imp[1].later
    /\ imp[1].pre # {}
    /\ transactions # imp[1].pre

\* C6: every record of an import call gets exactly one outcome; the answered
\* counts are not negative and sum to the number of records; skipped is 0
\* unless the guard triggered.
C6_CountsSumToRecords ==
    \A p \in Procs :
        /\ imp[p].pc = "loop" => Len(imp[p].outcome) = imp[p].i - 1
        /\ (imp[p].pc = "done" /\ imp[p].resp.code = 200) =>
              LET r == imp[p].resp
              IN  /\ Len(imp[p].outcome) = Len(imp[p].req)
                  /\ r.imported = CountOutcome(p, "imported")
                  /\ r.errors = CountOutcome(p, "error")
                  /\ r.skipped = CountOutcome(p, "skipped")
                  /\ r.imported + r.errors + r.skipped = Len(imp[p].req)
                  /\ r.imported >= 0 /\ r.errors >= 0 /\ r.skipped >= 0
                  /\ r.skipped > 0 => CountAllTransactions(imp[p].pre) > 0

\* C6 witness: an import answered with one imported and one errored record.
C6_Witness ==
    /\ imp[1].pc = "done"
    /\ imp[1].resp.imported = 1
    /\ imp[1].resp.errors = 1
    /\ imp[1].resp.skipped = 0

\* C7: an import of R records into a store without non-deleted transactions,
\* every category name resolving, K of the dates not in the wire format,
\* answers errors = K and imported = R - K, and inserts every record with a
\* well-formed date, wherever the bad ones stand.
C7_BadDatesCountedNotAborting ==
    \A p \in Procs :
        ( /\ imp[p].pc = "done"
          /\ imp[p].resp.code = 200
          /\ CountAllTransactions(imp[p].pre) = 0
          /\ \A k \in 1..Len(imp[p].req) :
                \E c \in categories : c.name = imp[p].req[k].category_name ) =>
            LET req == imp[p].req
                bad == {k \in 1..Len(req) : ~IsWireDate(req[k].date)}
                new == {r.id : r \in transactions \ imp[p].pre}
            IN  /\ imp[p].resp.errors = Cardinality(bad)
                /\ imp[p].resp.imported = Len(req) - Cardinality(bad)
                /\ Cardinality(new) = Len(req) - Cardinality(bad)
                /\ \A k \in 1..Len(req) \ bad :
                      \E o \in origin :
                          o.id \in new /\ o.via = "import" /\ o.pos = k /\ o.rec = req[k]

\* C7 witness: the bad record came first and the record after it was inserted.
C7_Witness ==
    /\ imp[1].pc = "done"
    /\ imp[1].req = <<RecBadDate, RecFood>>
    /\ imp[1].resp.errors = 1
    /\ imp[1].resp.imported = 1

\* The first category in (type, name) order.
IsFirstCategory(c) ==
    /\ c \in categories
    /\ \A d \in categories \ {c} :
          \/ StrLess(c.type, d.type)
          \/ c.type = d.type /\ StrLess(c.name, d.name)

\* C8: an imported record whose category name matches no category exactly is
\* stored under the first category in (type, name) order; with an empty catalog
\* every record is an error and nothing is written.
C8_FallbackToFirstCategory ==
    /\ \A o \in origin :
          (o.via = "import" /\ \A c \in categories : c.name # o.rec.category_name) =>
              \E c \in categories : IsFirstCategory(c) /\ RowOf(o.id).category_id = c.id
    /\ \A p \in Procs :
          (imp[p].pc = "done" /\ imp[p].resp.code = 200
              /\ CountAllTransactions(imp[p].pre) = 0) =>
              /\ \A k \in 1..Len(imp[p].req) :
                    ( /\ categories # {}
                      /\ \A c \in categories : c.name # imp[p].req[k].category_name
                      /\ IsWireDate(imp[p].req[k].date) ) =>
                        imp[p].outcome[k] = "imported"
              /\ categories = {} =>
                    /\ imp[p].resp.errors = Len(imp[p].req)
                    /\ transactions = imp[p].pre

\* C8 witness: the record named "food" was stored under Food, the first of the
\* seeded catalog, and not under the category of its neighbour.
C8_Witness ==
    \E o \in origin :
        /\ o.via = "import"
        /\ o.rec = RecLowerCase
        /\ RowOf(o.id).category_id = 1
        /\ Cardinality(categories) > 1

\* C9: every row written by import has the amount, the currency and the
\* description of its input record.
C9_ImportPreservesAmount ==
    \A o \in origin :
        o.via = "import" =>
            \E r \in transactions :
                /\ r.id = o.id
                /\ r.amount = o.rec.amount
                /\ r.currency = o.rec.currency
                /\ r.description = o.rec.description

\* C9 witness: a positive amount was stored unchanged under an expense category.
C9_Witness ==
    \E o \in origin, c \in categories :
        /\ o.via = "import"
        /\ o.rec = RecPositiveFood
        /\ RowOf(o.id).amount = 4000
        /\ RowOf(o.id).category_id = c.id
        /\ c.type = "expense"

\* C10 (as claimed): every row written by transaction create or import has an
\* amount whose sign agrees with the type of the category it is stored under.
C10_SignAgreesWithCategory ==
    \A o \in origin, c \in categories :
        (o.via \in {"create", "import"} /\ RowOf(o.id).category_id = c.id) =>
            SignAgrees(RowOf(o.id).amount, c.type)

\* C10 (amended): every row written by transaction create has an amount whose
\* sign agrees with the type of the category it is stored under, and is not
\* positive when the catalog is empty.
C10_CreateSignAgreesWithCategory ==
    \A o \in origin :
        o.via = "create" =>
            /\ \A c \in categories :
                  RowOf(o.id).category_id = c.id => SignAgrees(RowOf(o.id).amount, c.type)
            /\ categories = {} => RowOf(o.id).amount <= 0

\* C10 witness: create stored an expense and, under an income-only catalog, a
\* positive amount under the fallback category.
C10_Witness ==
    \E o \in origin, c \in categories :
        /\ o.via = "create"
        /\ RowOf(o.id).category_id = c.id
        /\ c.type = "income"
        /\ RowOf(o.id).amount > 0
        /\ RowOf(o.id).description = "pizza"

\* The round trip is over: the client posted the envelope it held to a store
\* made anew that had no transaction, and the import handler has answered.
RoundTripDone ==
    /\ rt.held
    /\ imp[1].pc = "done"
    /\ imp[1].resp.code = 200
    /\ imp[1].req = rt.envelope
    /\ imp[1].pre = {}

\* The row that import wrote for the record at this position of the request.
ImportedAt(k) ==
    RowOf((CHOOSE o \in origin : o.via = "import" /\ o.pos = k).id)

\* The name of the category a row is stored under.
CategoryNameOf(r) == (CHOOSE c \in categories : c.id = r.category_id).name

\* C11 (as claimed): after the round trip the store holds one transaction for
\* each exported transaction and no other, with the same signed amount,
\* currency, description, occurrence date and category name.
C11_RoundTripKeepsEveryField ==
    RoundTripDone =>
        /\ Cardinality(transactions) = Len(rt.rows)
        /\ \A k \in 1..Len(rt.rows) :
              /\ \E o \in origin : o.via = "import" /\ o.pos = k
              /\ ImportedAt(k).amount = rt.rows[k].amount
              /\ ImportedAt(k).currency = rt.rows[k].currency
              /\ ImportedAt(k).description = rt.rows[k].description
              /\ ImportedAt(k).date = rt.rows[k].date
              /\ CategoryNameOf(ImportedAt(k)) = rt.rows[k].category_name

\* C11 (amended): after the round trip the store holds one transaction for
\* each exported transaction and no other, with the same signed amount,
\* currency and description; the occurrence date is the exported one without
\* its fraction of a second; the category name is the exported one when the
\* new store has a category of that name, else the name of the new store's
\* first category in (type, name) order.
C11_RoundTripUpToSecondAndCatalog ==
    RoundTripDone =>
        /\ Cardinality(transactions) = Len(rt.rows)
        /\ \A k \in 1..Len(rt.rows) :
              /\ \E o \in origin : o.via = "import" /\ o.pos = k
              /\ ImportedAt(k).amount = rt.rows[k].amount
              /\ ImportedAt(k).currency = rt.rows[k].currency
              /\ ImportedAt(k).description = rt.rows[k].description
              /\ ImportedAt(k).date = TruncateSecond(rt.rows[k].date)
              /\ CategoryNameOf(ImportedAt(k)) =
                    IF \E c \in categories : c.name = rt.rows[k].category_name
                      THEN rt.rows[k].category_name
                      ELSE (CHOOSE c \in categories : IsFirstCategory(c)).name

\* C11 witness: a round trip of two transactions ended; one was dated inside
\* a second, one was stored under a category the new store does not have.
C11_Witness ==
    /\ RoundTripDone
    /\ Len(rt.rows) = 2
    /\ \E k \in 1..2 : rt.rows[k].date # TruncateSecond(rt.rows[k].date)
    /\ \E k \in 1..2 : rt.rows[k].category_name = "Restored Cat"
    /\ Cardinality(transactions) = 2

\* The non-deleted rows of a transactions table.
NonDeleted(txs) == {r \in txs : ~r.deleted_at.Valid}

C13_SuccessMeansEveryPageCopied ==
    (bk.pc = "done" /\ ~bk.err) => bk.done

\* C14: the file that a successful backup leaves equals the store as it was at
\* one instant between the start and the end of the backup: when the backup
\* began, when its copy step ran, or when it returned.
C14_BackupIsPointInTimeImage ==
    (bk.pc = "done" /\ ~bk.err) =>
        backupFile \in {bk.atStart, bk.atStep,
                        DatabaseFile(categories, transactions, nextId)}

C16_BothSubStepsAttempted ==
    cycle.ran =>
        /\ cycle.tried = <<"db", "json">>
        /\ ~cycle.jsonErr =>
              /\ sidecar.exists
              /\ sidecar.exported_at = FormatRFC3339(cycle.at - 1)
        /\ sched.pc = "loop"

\* C16 witness: the snapshot has failed in every cycle so far, and the last
\* cycle wrote the sidecar all the same.
C16_Witness ==
    /\ cycle.ran
    /\ cycle.dbErr
    /\ ~cycle.jsonErr
    /\ ~backupFile.exists
    /\ sidecar.exists

\* C17: the scheduler runs its first cycle on start, before any tick, and
\* every cycle is followed by another one, whatever the cycles returned (up
\* to the number of cycles the model runs).
C17_CyclesGoOn ==
    /\ [](~cycle.ran => (sched.pc = "start" /\ sched.ticks = 0))
    /\ (sched.pc = "start") ~> (cycle.ran /\ sched.ticks = 0)
    /\ \A n \in 0..(MaxCycles - 2) :
          (cycle.ran /\ sched.ticks = n) ~> (cycle.ran /\ sched.ticks = n + 1)

\* C17 witness: a cycle ran on a tick after a cycle in which both sub-steps
\* failed.
C17_Witness ==
    /\ cycle.ran
    /\ sched.ticks >= 1
    /\ cycle.prevErr
    /\ lastBackupTime = cycle.at

\* The ids of the transactions an envelope carries.
ExportedIds(e) == {e.transactions[k].id : k \in 1..Len(e.transactions)}

\* The ids of the store's rows that are not soft-deleted and whose date
\* carries the year of the text.
MatchingIds(txs, year) ==
    {r.id : r \in {q \in txs : ~q.deleted_at.Valid /\ YearText(YearOf(q.date)) = year}}

\* C18: an export for year Y returns exactly the transactions that are not
\* soft-deleted and whose date carries year Y: none of another year, none
\* soft-deleted, none that matches left out.
C18_ExportIsExactlyTheYear ==
    [][exp' # exp =>
          ExportedIds(exp') = MatchingIds(transactions, exp'.year)]_vars

\* The categories an envelope carries, as store rows.
ExportedCategories(e) ==
    {[id |-> e.categories[k].id, name |-> e.categories[k].name,
      type |-> e.categories[k].type] : k \in 1..Len(e.categories)}

\* C19: every export, for any requested period and any store contents,
\* carries the full catalog: its categories are the store's categories, each
\* once, also when no transaction matches the period.
C19_ExportCarriesFullCatalog ==
    [][exp' # exp =>
          /\ ExportedCategories(exp') = categories
          /\ Len(exp'.categories) = Cardinality(categories)]_vars

\* C19 witness: an export for a year without transactions, over a store that
\* has transactions of another year, carries the five seeded categories.
C19_Witness ==
    /\ exp.code = 200
    /\ exp.year = "2025"
    /\ exp.transactions = <<>>
    /\ transactions # {}
    /\ \A r \in transactions : YearOf(r.date) = 2026 /\ ~r.deleted_at.Valid
    /\ categories = SeededCategories
    /\ ExportedCategories(exp) = SeededCategories

\* The ids of the store's rows that are not soft-deleted, of any year.
NonDeletedIds(txs) == {r.id : r \in NonDeleted(txs)}

\* The rows whose category row is in the catalog.
WithCategory(txs, cats) == {r \in txs : \E c \in cats : c.id = r.category_id}

HasSignature(bytes) ==
    /\ Len(bytes) >= MagicLen
    /\ \A k \in 1..MagicLen : bytes[k] = SqliteMagic[k]

\* C21: the upload validation accepts a byte string if and only if it has at
\* least 16 bytes and its first 16 bytes are the signature "SQLite format 3\0":
\* a shorter string or one that differs in any of the 16 bytes is answered
\* "Invalid file", and a string with the signature is never answered so.
C21_AcceptsExactlyTheSignature ==
    (rst.pc = "done" /\ rst.upload.present) =>
        /\ (rst.resp = "Invalid file: not a SQLite database")
              <=> ~HasSignature(rst.upload.bytes)
        /\ rst.invoked <=> HasSignature(rst.upload.bytes)

\* C21 witness: an upload of exactly the 16 signature bytes passed the
\* validation and reached the restore.
C21_Witness ==
    /\ rst.pc = "done"
    /\ rst.upload.present
    /\ rst.upload.bytes = SqliteMagic
    /\ rst.invoked
    /\ rst.resp # "Invalid file: not a SQLite database"

\* The ids of the rows of a query result.
IdsOf(rows) == {rows[k].id : k \in 1..Len(rows)}

\* A row without its deletion mark.
Unmarked(r) == [r EXCEPT !.deleted_at = NullTime]

\* What a delete of id leaves: every row is still in the table with the
\* fields it had; a row that was live under that id is now marked, counted no
\* more and in no listing and no export; otherwise the table is as it was.
SoftDeleted(id) ==
    /\ {Unmarked(r) : r \in transactions'} = {Unmarked(r) : r \in transactions}
    /\ IF \E r \in transactions : r.id = id /\ ~r.deleted_at.Valid
         THEN /\ \E r \in transactions' : r.id = id /\ r.deleted_at.Valid
              /\ CountAllTransactions(transactions') =
                    CountAllTransactions(transactions) - 1
              /\ id \notin IdsOf(ListRecentTransactions(transactions', categories'))
              /\ id \notin IdsOf(ListAllTransactionsForExport(transactions', categories'))
              /\ \A year \in {"2025", "2026"} :
                    id \notin IdsOf(ListTransactionsByYear(transactions', categories', year))
         ELSE transactions' = transactions

\* C22: a delete through HandleTransactionDelete is a soft delete: afterwards
\* the transaction is absent from the non-deleted count, from the listings of
\* live transactions and from the exports, and its row is still in the table;
\* a delete of an id that does not exist or is already deleted changes
\* nothing, and the handler answers every id.
C22_DeleteIsSoft ==
    /\ [](\A id \in 1..MaxRows : ENABLED HandleTransactionDelete(id))
    /\ [][\A id \in 1..MaxRows : HandleTransactionDelete(id) => SoftDeleted(id)]_vars

\* C22 witness: one of two transactions has been soft-deleted, a second delete
\* of it has changed nothing, and an export made since carries the other one
\* only.
C22_Witness ==
    /\ Cardinality(transactions) = 2
    /\ CountAllTransactions(transactions) = 1
    /\ \A r \in transactions : YearOf(r.date) = 2026
    /\ exp.code = 200
    /\ exp.year = "2026"
    /\ ExportedIds(exp) = NonDeletedIds(transactions)

\* C23: every read and every write of the last-backup time happens under the
\* lock: no Get holds the lock while a Set holds it, a Get returns the value
\* the last completed Set had written when the Get was called or the value of
\* a Set that ran beside it (never a half-written one), and a Get called after
\* a Set(t) returned, with no Set begun before the Get returned, returns t.
C23_TimestampUnderLock ==
    /\ lastBackupMu.writer <=> setter.pc \in {"locked", "half", "stored"}
    /\ lastBackupMu.readers = {p \in Procs : getters[p].pc \in {"rlocked", "loaded"}}
    /\ ~(lastBackupMu.writer /\ lastBackupMu.readers # {})
    /\ \A p \in Procs :
          getters[p].pc = "returned" =>
              /\ getters[p].val \in setter.written
              /\ getters[p].val >= getters[p].floor
              /\ getters[p].noLater => getters[p].val = getters[p].floor

\* C23 witness: one status query returned the time a Set wrote beside it,
\* while another one, called after that Set returned, waits for a later Set
\* that holds the lock with the value half-written.
C23_Witness ==
    /\ getters[1].pc = "returned"
    /\ getters[1].val > getters[1].floor
    /\ getters[2].pc = "wait"
    /\ getters[2].floor = getters[1].val
    /\ setter.pc = "half"

\* C24: category names are unique: from the schema's seeded catalog, after
\* any number of startup seeding runs with any configs, no two categories have
\* the same name; and a seeding run repeated with the config of the run before
\* leaves the user count and the category count as they were.
C24_CategoryNamesUnique ==
    /\ [](\A c, d \in categories : c.name = d.name => c = d)
    /\ [](Cardinality(users) = 1)
    /\ [][Startup(FALSE, catConfig) =>
             /\ Cardinality(categories') = Cardinality(categories)
             /\ Cardinality(users') = Cardinality(users)]_vars

\* C24 witness: a new database was seeded under a config that names "Pets"
\* twice and "Stamps" as default, then seeded again under a config that names
\* "Stamps" and "Travel": each name is there once.
C24_Witness ==
    /\ Cardinality({c \in categories : c.name = "Pets"}) = 1
    /\ Cardinality({c \in categories : c.name = "Stamps"}) = 1
    /\ Cardinality({c \in categories : c.name = "Travel"}) = 1
    /\ Cardinality({c \in categories : c.name = "Salary"}) = 1
    /\ SchemaCategories \subseteq categories
    /\ Cardinality(categories) = 8
    /\ users = {1}

\* The transactions of an envelope carry the name and the type of the
\* category their rows are stored under.
SelfDescribing(e, txs, cats) ==
    \A k \in 1..Len(e.transactions) :
        \E r \in txs, c \in cats :
            /\ r.id = e.transactions[k].id
            /\ c.id = r.category_id
            /\ e.transactions[k].category_name = c.name
            /\ e.transactions[k].category_type = c.type

\* C25: the export envelope is self-describing: every exported transaction
\* carries the name and the type (income or expense) of the category it is
\* stored under, in the export by request as well as in the JSON sidecar.
C25_ExportCarriesNameAndType ==
    [][/\ exp' # exp => SelfDescribing(exp', transactions, categories)
       /\ sidecar' # sidecar => SelfDescribing(sidecar', transactions, categories)]_vars

\* =================================================== the browser (sync.js)
\* A request path is its segments; indexOf("/api/transaction") finds the
\* segments "api", "transaction" in a row (no other route has a segment that
\* begins with "transaction").
ContainsApiTransaction(path) ==
    \E k \in 1..Len(path) - 1 : path[k] = "api" /\ path[k + 1] = "transaction"

\* The htmx:afterRequest listener's test.
TriggersSync(method, path, status) ==
    LET isCreate == method = "POST" /\ ContainsApiTransaction(path)
        isDelete == method = "DELETE" /\ ContainsApiTransaction(path)
    IN  (isCreate \/ isDelete) /\ status >= 200 /\ status < 300

\* A call of syncFromServer can be made: one of the first "limit" runs is free.
HasFreeRun(limit) == \E r \in 1..limit : runs[r].pc = "idle"

\* A call of syncFromServer: the fetch of the export is sent.
SyncStarted(limit) ==
    LET free == CHOOSE r \in 1..limit :
                    /\ runs[r].pc = "idle"
                    /\ \A q \in 1..limit : runs[q].pc = "idle" => r <= q
    IN  [runs EXCEPT ![free] = [pc |-> "fetching", data |-> <<>>, pre |-> cache]]

\* The listener after a response to an HTMX request.
AfterRequest(method, path, status, limit) ==
    IF TriggersSync(method, path, status)
      THEN HasFreeRun(limit) /\ runs' = SyncStarted(limit)
      ELSE UNCHANGED runs

\* clearStore: the object store is emptied.
ClearStore(c) == {}

\* putAll: store.put of each item; the key is the id.
PutAll(c, items) ==
    {x \in c : \A k \in 1..Len(items) : items[k].id # x.id}
        \cup {items[k] : k \in 1..Len(items)}

\* getAll: the records in the order of their keys.
GetAll(c) ==
    [k \in 1..Cardinality(c) |->
        CHOOSE x \in c : Cardinality({y \in c : y.id < x.id}) = k - 1]

\* The user adds a transaction in the page.
UiCreate(input, limit) ==
    /\ page.pc # "closed"
    /\ TransactionCreate(input)
    /\ AfterRequest("POST", <<"api", "transaction">>, 200, limit)
    /\ UNCHANGED <<cache, page, newest>>

\* The user removes a transaction in the page.
UiDelete(id, limit) ==
    /\ page.pc # "closed"
    /\ TransactionDelete(id)
    /\ AfterRequest("DELETE", <<"api", "transaction", "{id}">>, 200, limit)
    /\ UNCHANGED <<cache, page, newest>>

\* The user wipes all data in the page.
UiWipe(limit) ==
    /\ page.pc # "closed"
    /\ WipeData
    /\ AfterRequest("DELETE", <<"api", "data">>, 200, limit)
    /\ UNCHANGED <<cache, page, newest>>

\* syncFromServer: the export of the current year arrives, or the fetch fails.
SyncFetch(r, ok) ==
    /\ runs[r].pc = "fetching"
    /\ IF ok
         THEN /\ exp' = SyncExportResponse(YearText(YearOf(now)))
              /\ runs' = [runs EXCEPT ![r].pc = "fetched",
                                      ![r].data = exp'.transactions]
              /\ newest' = exp'.transactions
         ELSE /\ runs' = [runs EXCEPT ![r].pc = "failed"]
              /\ UNCHANGED <<exp, newest>>
    /\ UNCHANGED <<store, now, imp, rst, backup, rt, ext, cache, page, origin,
                   importDone>>

\* clearStore(idb, STORE_TRANSACTIONS).
SyncClearTransactions(r, ok) ==
    /\ runs[r].pc = "fetched"
    /\ IF ok
         THEN /\ cache' = ClearStore(cache)
              /\ runs' = [runs EXCEPT ![r].pc = "cleared"]
         ELSE /\ runs' = [runs EXCEPT ![r].pc = "failed"]
              /\ UNCHANGED cache
    /\ UNCHANGED <<store, now, imp, rst, backup, exp, rt, ext, page, newest, origin,
                   importDone>>

\* clearStore(idb, STORE_CATEGORIES).
SyncClearCategories(r, ok) ==
    /\ runs[r].pc = "cleared"
    /\ runs' = [runs EXCEPT ![r].pc = IF ok THEN "emptied" ELSE "failed"]
    /\ UNCHANGED <<store, now, imp, rst, backup, exp, rt, ext, cache, page, newest,
                   origin, importDone>>

\* putAll(idb, STORE_TRANSACTIONS, data.transactions), skipped for no
\* transactions; a failed put aborts its IndexedDB transaction.
SyncPutTransactions(r, ok) ==
    /\ runs[r].pc = "emptied"
    /\ IF Len(runs[r].data) = 0
         THEN /\ runs' = [runs EXCEPT ![r].pc = "put"]
              /\ UNCHANGED cache
         ELSE IF ok
           THEN /\ cache' = PutAll(cache, runs[r].data)
                /\ runs' = [runs EXCEPT ![r].pc = "put"]
           ELSE /\ runs' = [runs EXCEPT ![r].pc = "failed"]
                /\ UNCHANGED cache
    /\ UNCHANGED <<store, now, imp, rst, backup, exp, rt, ext, page, newest, origin,
                   importDone>>

\* putAll of the categories, the two putMeta calls and idb.close().
SyncPutRest(r, ok) ==
    /\ runs[r].pc = "put"
    /\ runs' = [runs EXCEPT ![r].pc = IF ok THEN "done" ELSE "failed"]
    /\ UNCHANGED <<store, now, imp, rst, backup, exp, rt, ext, cache, page, newest,
                   origin, importDone>>

\* The promise of syncFromServer settles.
SyncSettle(r) ==
    /\ runs[r].pc \in {"done", "failed"}
    /\ runs' = [runs EXCEPT ![r] = IdleRun]
    /\ UNCHANGED <<store, now, imp, rst, backup, exp, rt, ext, cache, page, newest,
                   origin, importDone>>

\* init: the listeners are set up and checkAndRestore is scheduled.
PageLoad ==
    /\ page.pc = "closed"
    /\ page' = [ClosedPage EXCEPT !.pc = "waiting"]
    /\ UNCHANGED <<store, now, imp, rst, backup, exp, rt, ext, cache, runs, newest,
                   origin, importDone>>

\* window.location.reload(), by the user or after a restore: the runs of the
\* old page end where they are.
PageReload ==
    /\ page.pc # "closed"
    /\ page' = [ClosedPage EXCEPT !.pc = "waiting"]
    /\ runs' = [r \in SyncRuns |-> IdleRun]
    /\ UNCHANGED <<store, now, imp, rst, backup, exp, rt, ext, cache, newest, origin,
                   importDone>>

\* HandleSyncStatus: the count of the transactions that are not deleted.
SyncStatusResponse == [transaction_count |-> CountAllTransactions(transactions)]

\* checkAndRestore: the status response arrives.
CheckStatus ==
    /\ page.pc = "waiting"
    /\ page' = [page EXCEPT !.pc = "checked",
                            !.count = SyncStatusResponse.transaction_count]
    /\ UNCHANGED <<store, now, imp, rst, backup, exp, rt, ext, cache, runs, newest,
                   origin, importDone>>

\* The banner is shown for a cache with transactions.
OffersRestore_Always(count, cached) == TRUE

OffersRestore(count, cached) == cached > 0

\* checkAndRestore after the status response: sync from a server with data,
\* else offer the cache for restore.
CheckBranch(limit) ==
    /\ page.pc = "checked"
    /\ IF page.count > 0
         THEN /\ HasFreeRun(limit)
              /\ runs' = SyncStarted(limit)
              /\ page' = [page EXCEPT !.pc = "open"]
         ELSE /\ page' = IF OffersRestore(page.count, Len(GetAll(cache)))
                           THEN [page EXCEPT !.pc = "prompt",
                                             !.offered = Len(GetAll(cache))]
                           ELSE [page EXCEPT !.pc = "open"]
              /\ UNCHANGED runs
    /\ UNCHANGED <<store, now, imp, rst, backup, exp, rt, ext, cache, newest, origin,
                   importDone>>

\* The user clicks Restore: the cache is read again and sent, if it has
\* transactions.
ClickRestore(p) ==
    /\ page.pc = "prompt"
    /\ cache # {}
    /\ ImportBegin(p, [valid |-> TRUE, transactions |-> GetAll(cache)])

\* The user clicks Dismiss.
ClickDismiss ==
    /\ page.pc = "prompt"
    /\ page' = [page EXCEPT !.pc = "open"]
    /\ UNCHANGED <<store, now, imp, rst, backup, exp, rt, ext, cache, runs, newest,
                   origin, importDone>>

\* The page beside a server that may lose its database: one sync at a time.
NextReconcile ==
    \/ PageLoad
    \/ PageReload
    \/ CheckStatus
    \/ CheckBranch(1)
    \/ ClickRestore(1)
    \/ ClickDismiss
    \/ ImportRecord(1)
    \/ ImportFinish(1)
    \/ ImportReturn(1)
    \/ \E input \in PizzaInputs : Quiet /\ UiCreate(input, 1)
    \/ SyncFetch(1, TRUE)
    \/ SyncClearTransactions(1, TRUE)
    \/ SyncClearCategories(1, TRUE)
    \/ SyncPutTransactions(1, TRUE)
    \/ SyncPutRest(1, TRUE)
    \/ SyncSettle(1)
    \/ Quiet /\ Startup(TRUE, ConfigOf(CatConfig))

SpecReconcile == Init /\ [][NextReconcile]_vars

\* C26: the page sends an import request only by a click on Restore in a
\* banner that was shown after a status response with transaction_count = 0
\* for a cache with at least one transaction; after a status response with
\* transaction_count > 0 the page starts a sync from the server, shows no
\* banner and sends no import.
C26_ImportOnlyToEmptyStore ==
    /\ [](page.pc = "prompt" => page.count = 0 /\ page.offered > 0)
    /\ [][/\ \A p \in Procs :
                imp[p].pc = "idle" /\ imp'[p].pc # "idle"
                    => /\ ClickRestore(p)
                       /\ page.count = 0
                       /\ page.offered > 0
                       /\ Len(imp'[p].req) > 0
          /\ CheckBranch(1) /\ page.count > 0
                => /\ \E r \in SyncRuns : runs[r].pc = "idle" /\ runs'[r].pc = "fetching"
                   /\ page'.pc = "open"
                   /\ imp' = imp]_vars

\* An import request of the page is being handled, and the server that got
\* it has no transaction.
C26_Witness ==
    /\ imp[1].pc = "loop"
    /\ page.pc = "prompt"
    /\ page.offered > 0
    /\ imp[1].count = 0

\* The page after quick mutations: two runs of syncFromServer side by side,
\* every step of which succeeds.
NextSyncRace ==
    \/ PageLoad
    \/ CheckStatus
    \/ CheckBranch(2)
    \/ \E input \in PizzaInputs : UiCreate(input, 2)
    \/ \E id \in 1..MaxRows : UiDelete(id, 2)
    \/ \E r \in SyncRuns : SyncFetch(r, TRUE)
    \/ \E r \in SyncRuns : SyncClearTransactions(r, TRUE)
    \/ \E r \in SyncRuns : SyncClearCategories(r, TRUE)
    \/ \E r \in SyncRuns : SyncPutTransactions(r, TRUE)
    \/ \E r \in SyncRuns : SyncPutRest(r, TRUE)
    \/ \E r \in SyncRuns : SyncSettle(r)

SpecSyncRace == Init /\ [][NextSyncRace]_vars

\* The transactions of an export, as a set.
ExportSet(data) == {data[k] : k \in 1..Len(data)}

\* No run of syncFromServer is under way.
RunsFinished == \A r \in SyncRuns : runs[r].pc \in {"idle", "done"}

\* C27: once every run of syncFromServer has finished, the cache holds
\* exactly the transactions of the last export the server gave the page.
C27_CacheIsNewestExport ==
    RunsFinished => cache = ExportSet(newest)

\* The page with one run of syncFromServer at a time, any step of which may
\* fail.
NextSyncFail ==
    \/ PageLoad
    \/ CheckStatus
    \/ CheckBranch(1)
    \/ \E input \in PizzaInputs : UiCreate(input, 1)
    \/ \E id \in 1..MaxRows : UiDelete(id, 1)
    \/ \E ok \in BOOLEAN : SyncFetch(1, ok)
    \/ \E ok \in BOOLEAN : SyncClearTransactions(1, ok)
    \/ \E ok \in BOOLEAN : SyncClearCategories(1, ok)
    \/ \E ok \in BOOLEAN : SyncPutTransactions(1, ok)
    \/ \E ok \in BOOLEAN : SyncPutRest(1, ok)
    \/ SyncSettle(1)

SpecSyncFail == Init /\ [][NextSyncFail]_vars

\* C28: a run of syncFromServer that failed has left the cache's
\* transactions as they were when the run began.
C28_FailedSyncKeepsCache ==
    \A r \in SyncRuns : runs[r].pc = "failed" => cache = runs[r].pre

\* The user's mutations in the page, with reloads: one sync at a time, every
\* step of which succeeds.
NextUi ==
    \/ PageLoad
    \/ PageReload
    \/ CheckStatus
    \/ CheckBranch(1)
    \/ ClickDismiss
    \/ \E input \in PizzaInputs : UiCreate(input, 1)
    \/ \E id \in 1..MaxRows : UiDelete(id, 1)
    \/ UiWipe(1)
    \/ SyncFetch(1, TRUE)
    \/ SyncClearTransactions(1, TRUE)
    \/ SyncClearCategories(1, TRUE)
    \/ SyncPutTransactions(1, TRUE)
    \/ SyncPutRest(1, TRUE)
    \/ SyncSettle(1)

SpecUi == Init /\ [][NextUi]_vars

\* A call of syncFromServer is made in the step.
SyncTriggered == \E r \in SyncRuns : runs[r].pc = "idle" /\ runs'[r].pc = "fetching"

\* C29: a create, a soft delete and a wipe made in the page each trigger a
\* call of syncFromServer.
C29_MutationTriggersSync ==
    [][/\ (\E input \in PizzaInputs : UiCreate(input, 1)) => SyncTriggered
       /\ (\E id \in 1..MaxRows : UiDelete(id, 1)) => SyncTriggered
       /\ UiWipe(1) => SyncTriggered]_vars

\* The scheduler's goroutine and its ticker, with cycles that take time.
NextTicker ==
    \/ FirstCycleBegin
    \/ TickerFire
    \/ LoopReceive
    \/ \E dbErr \in BOOLEAN, jsonErr \in BOOLEAN : CycleReturn(dbErr, jsonErr)
    \/ \E input \in PizzaInputs : HandleTransactionCreate(input)

SpecTicker == Init /\ [][NextTicker]_vars

\* C30: at most one scheduled cycle is under way at any time, and the ticks
\* that fired during a cycle begin at most one further cycle after it, and
\* none if no tick fired during it.
C30_CyclesNeverOverlap ==
    /\ sched.running <= 1
    /\ sched.caused <= 1
    /\ sched.caused = 1 => sched.missed >= 1

\* Two ticks fired during a cycle, and the one cycle they caused is under way.
C30_Witness ==
    /\ sched.missed >= 2
    /\ sched.caused = 1
    /\ sched.running = 1


====
